---- MODULE Spec2Model ----
(***************************************************************************)
(* Knowledge vault: cross-reference detection (findCrossReferences) and    *)
(* the topic / relation store driven by the update and createRelation      *)
(* tools.  Text is modelled as sequences of one-character strings;         *)
(* confidences and strengths are integers in hundredths (1.0 = 100).       *)
(***************************************************************************)
EXTENDS Integers, Sequences, FiniteSets, TLC

(***************************************************************************)
(* Bounds of the model.                                                    *)
(***************************************************************************)
\* longest content, in parts, the detector specification builds
MaxParts == 3
\* largest name index (rows of SELECT name FROM topics) of the detector specification
MaxNames == 2
\* number of tool calls (update, createRelation) one run of the vault makes
MaxCalls == 3

(***************************************************************************)
(* Characters.                                                             *)
(***************************************************************************)
\* String.prototype.toLowerCase on one character
ToLowerChar(c) ==
  CASE c = "G" -> "g"
    [] c = "O" -> "o"
    [] c = "R" -> "r"
    [] OTHER -> c

\* the letters and digits of the alphabet in use
IsAlnum(c) == c \in {"G", "g", "O", "o", "R", "r", "x"}

\* \w of a JavaScript regular expression: [A-Za-z0-9_]
IsWordChar(c) == IsAlnum(c) \/ c = "_"

\* \s of a JavaScript regular expression
IsSpace(c) == c = " "

\* two characters are equal under the regular expression flag i
CharEqI(a, b) == ToLowerChar(a) = ToLowerChar(b)

\* a.toLowerCase() === b.toLowerCase()
EqualsIgnoreCase(a, b) ==
  /\ Len(a) = Len(b)
  /\ \A i \in 1..Len(a) : ToLowerChar(a[i]) = ToLowerChar(b[i])

Min(S) == CHOOSE x \in S : \A y \in S : x <= y

(***************************************************************************)
(* topicToSlug: lower-case, then every run of characters outside [a-z0-9]  *)
(* becomes one "-".                                                        *)
(***************************************************************************)
IsSlugChar(c) == IsAlnum(c) /\ ToLowerChar(c) = c

RECURSIVE SlugFrom(_, _)
SlugFrom(topic, i) ==
  IF i > Len(topic) THEN <<>>
  ELSE LET c == ToLowerChar(topic[i]) IN
       IF IsSlugChar(c) THEN <<c>> \o SlugFrom(topic, i + 1)
       ELSE IF i > 1 /\ ~IsSlugChar(ToLowerChar(topic[i - 1]))
            THEN SlugFrom(topic, i + 1)
            ELSE <<"-">> \o SlugFrom(topic, i + 1)

topicToSlug(topic) == SlugFrom(topic, 1)

(***************************************************************************)
(* The three regular expressions of findCrossReferences.                   *)
(***************************************************************************)
\* first index >= from holding character c, 0 when there is none
IndexOfFrom(s, c, from) ==
  LET hits == {i \in from..Len(s) : s[i] = c}
  IN IF hits = {} THEN 0 ELSE Min(hits)

\* /\[([^\]]+)\]\([^)]+\)/ anchored at i: the index of the closing ")" or 0
LinkMatchEnd(content, i) ==
  IF i > Len(content) \/ content[i] # "[" THEN 0
  ELSE LET j == IndexOfFrom(content, "]", i + 1) IN
       IF j = 0 \/ j = i + 1 \/ j + 1 > Len(content) \/ content[j + 1] # "(" THEN 0
       ELSE LET k == IndexOfFrom(content, ")", j + 2) IN
            IF k = 0 \/ k = j + 2 THEN 0 ELSE k

\* capture group 1 of the link match anchored at i
LinkLabel(content, i) ==
  SubSeq(content, i + 1, IndexOfFrom(content, "]", i + 1) - 1)

\* the labels of successive markdownLinkRegex.exec(content) calls (flag g)
RECURSIVE LinkLabelsFrom(_, _)
LinkLabelsFrom(content, from) ==
  LET starts == {i \in from..Len(content) : LinkMatchEnd(content, i) # 0}
  IN IF starts = {} THEN <<>>
     ELSE LET i == Min(starts)
          IN <<LinkLabel(content, i)>> \o
             LinkLabelsFrom(content, LinkMatchEnd(content, i) + 1)

\* \b between content[p] and content[p + 1]; the edges count as non-word
WordBoundary(content, p) ==
  LET before == p >= 1 /\ IsWordChar(content[p])
      after == p + 1 <= Len(content) /\ IsWordChar(content[p + 1])
  IN before # after

\* name, taken literally, matches content at start..start + Len(name) - 1 (flag i)
LiteralAt(name, content, start) ==
  /\ start + Len(name) - 1 <= Len(content)
  /\ \A i \in 1..Len(name) : CharEqI(name[i], content[start + i - 1])

\* new RegExp(`\\b${name}\\b`, 'gi').test(content)
ExactTest(name, content) ==
  \E start \in 1..(Len(content) + 1) :
    /\ WordBoundary(content, start - 1)
    /\ LiteralAt(name, content, start)
    /\ WordBoundary(content, start + Len(name) - 1)

\* the rest of name.split('').join('\\s*') from character k matches at pos
RECURSIVE FuzzyAt(_, _, _, _)
FuzzyAt(name, k, content, pos) ==
  /\ pos <= Len(content)
  /\ CharEqI(name[k], content[pos])
  /\ \/ k = Len(name)
     \/ \E gap \in 0..(Len(content) - pos) :
          /\ \A g \in 1..gap : IsSpace(content[pos + g])
          /\ FuzzyAt(name, k + 1, content, pos + gap + 1)

\* FuzzyTest with the characters joined by nothing: a plain substring test
FuzzyTestNoGaps(name, content) ==
  \E start \in 1..Len(content) : LiteralAt(name, content, start)

\* FuzzyTest with the characters joined by '.*': anything may sit in the gaps
FuzzyTestAnyGap(name, content) ==
  \E start \in 1..Len(content) :
    /\ CharEqI(name[1], content[start])
    /\ \E last \in start..Len(content) :
         /\ CharEqI(name[Len(name)], content[last])
         /\ last - start >= Len(name) - 1
         /\ \A k \in 2..(Len(name) - 1) :
              \E p \in (start + 1)..(last - 1) : CharEqI(name[k], content[p])

\* new RegExp(name.split('').join('\\s*'), 'gi').test(content)
FuzzyTest(name, content) ==
  \/ name = <<>>
  \/ \E start \in 1..Len(content) : FuzzyAt(name, 1, content, start)

\* the number of groups a "(" has opened and no ")" has closed after the first
\* k characters of name, -1 once a ")" has closed nothing
RECURSIVE OpenGroups(_, _)
OpenGroups(name, k) ==
  IF k = 0 THEN 0
  ELSE LET before == OpenGroups(name, k - 1)
       IN IF before < 0 THEN before
          ELSE IF name[k] = "(" THEN before + 1
          ELSE IF name[k] = ")" THEN before - 1
          ELSE before

\* new RegExp(`\\b${name}\\b`, 'gi') returns a regular expression; it raises a
\* SyntaxError when name leaves a group open.  Of the characters of the names
\* used here only the parentheses are regular-expression syntax.
RegExpCompiles(name) == OpenGroups(name, Len(name)) = 0

\* the for loop over topicNames is left by a SyntaxError
DetectionThrows(allNames) ==
  \E i \in 1..Len(allNames) : ~RegExpCompiles(allNames[i])

(***************************************************************************)
(* findCrossReferences.                                                    *)
(***************************************************************************)
\* Array.prototype.sort((a, b) => b.length - a.length): stable, longest first
RECURSIVE InsertByLength(_, _)
InsertByLength(sorted, name) ==
  IF sorted = <<>> THEN <<name>>
  ELSE IF Len(Head(sorted)) >= Len(name)
       THEN <<Head(sorted)>> \o InsertByLength(Tail(sorted), name)
       ELSE <<name>> \o sorted

RECURSIVE SortByLengthDesc(_)
SortByLengthDesc(names) ==
  IF names = <<>> THEN <<>>
  ELSE InsertByLength(SortByLengthDesc(SubSeq(names, 1, Len(names) - 1)),
                      names[Len(names)])

\* Map.prototype.set, the map kept as its entries in insertion order
MapSet(mentions, name, confidence) ==
  IF \E i \in 1..Len(mentions) : mentions[i].name = name
  THEN [i \in 1..Len(mentions) |->
          IF mentions[i].name = name
          THEN [name |-> name, confidence |-> confidence]
          ELSE mentions[i]]
  ELSE Append(mentions, [name |-> name, confidence |-> confidence])

\* topicNames.find(name => name.toLowerCase() === linkText.toLowerCase())
FindByLabel(topicNames, linkText) ==
  LET hits == {i \in 1..Len(topicNames) : EqualsIgnoreCase(topicNames[i], linkText)}
  IN IF hits = {} THEN <<>> ELSE <<topicNames[Min(hits)]>>

\* the while loop over the markdown links
RECURSIVE LinkPass(_, _, _)
LinkPass(labels, topicNames, mentions) ==
  IF labels = <<>> THEN mentions
  ELSE LET exactMatch == FindByLabel(topicNames, Head(labels))
       IN LinkPass(Tail(labels), topicNames,
                   IF exactMatch # <<>> THEN MapSet(mentions, exactMatch[1], 100)
                   ELSE mentions)

\* one iteration of the for loop over topicNames
PlainTextStep(name, content, mentions) ==
  IF ExactTest(name, content) THEN MapSet(mentions, name, 90)
  ELSE IF FuzzyTest(name, content) THEN MapSet(mentions, name, 70)
  ELSE mentions

\* the for loop over topicNames
RECURSIVE PlainTextPass(_, _, _)
PlainTextPass(topicNames, content, mentions) ==
  IF topicNames = <<>> THEN mentions
  ELSE PlainTextPass(Tail(topicNames), content,
                     PlainTextStep(Head(topicNames), content, mentions))

\* findCrossReferences(content), allNames being the rows of SELECT name FROM topics
findCrossReferences(content, allNames) ==
  LET topicNames == SortByLengthDesc(allNames)
  IN PlainTextPass(topicNames, content,
                   LinkPass(LinkLabelsFrom(content, 1), topicNames, <<>>))

(***************************************************************************)
(* State.                                                                  *)
(***************************************************************************)
VARIABLES
  topics,           \* table topics: rows [id, name, slug, category_id, content, is_inactive]
  categories,       \* table categories: rows [id, name]
  topic_relations,  \* table topic_relations: rows [id, source_id, target_id,
                    \*   relationship_type, relationship_strength]
  topic_history,    \* table topic_history, in insertion order: rows [topic_id, content]
  attachments,      \* table attachments: rows [id, topic_id, file_name]
  lastID,           \* the AUTOINCREMENT counters of topics, categories, topic_relations
  call,             \* per request slot: the tool call in progress and its locals
  started,          \* number of tool calls started so far
  lastWrite,        \* history: per (source, target, type), the strength last upserted
                    \*   and whether an upsert has replaced a different strength
  detNames,         \* detector run: rows of SELECT name FROM topics, in rowid order
  detContent,       \* detector run: the content scanned
  detParts,         \* detector run: number of parts the content was built from
  detResult,        \* detector run: what findCrossReferences returned
  detPc,            \* detector run: "build", "done" or "threw"
  exportFile,       \* the file at exportPath: the export data last written to it
  exportedVault     \* history: the topics and relations stored when it was written

dbVars == <<topics, categories, topic_relations, topic_history, attachments, lastID>>

vaultVars == <<topics, categories, topic_relations, topic_history, attachments,
               lastID, call, started, lastWrite, exportFile, exportedVault>>

fileVars == <<exportFile, exportedVault>>

detVars == <<detNames, detContent, detParts, detResult, detPc>>

vars == <<topics, categories, topic_relations, topic_history, attachments, lastID,
          call, started, lastWrite, detNames, detContent, detParts, detResult, detPc,
          exportFile, exportedVault>>

(***************************************************************************)
(* Inputs.                                                                 *)
(***************************************************************************)
NameGo == <<"G", "o">>
NameGoR == <<"G", "o", " ", "R">>
NameGoDashR == <<"G", "o", "-", "R">>
NameGoHash == <<"G", "o", "#">>

NamePool == {NameGo, NameGoR, NameGoDashR, NameGoHash}

NameGoLower == <<"g", "o">>
NameGoParen == <<"G", "o", "(">>
NameEmpty == <<>>

\* names the topic argument of update accepts (z.string()), among them two that
\* differ in case only, one with a regular-expression character and the empty one
FreeNamePool == {NameGo, NameGoLower, NameGoParen, NameEmpty}

FreeNameIndexes ==
  {ns \in UNION {[1..n -> FreeNamePool] : n \in 1..MaxNames} :
     \A i, j \in 1..Len(ns) : i # j => ns[i] # ns[j]}

\* the name indexes: up to MaxNames distinct names, in any row order
NameIndexes ==
  {ns \in UNION {[1..n -> NamePool] : n \in 1..MaxNames} :
     \A i, j \in 1..Len(ns) : i # j => ns[i] # ns[j]}

ContentParts ==
  { <<"G", "o">>, <<"g", "o">>, <<"G", " ", "o">>, <<"R">>, <<" ">>, <<"-">>,
    <<"#">>, <<"[">>, <<"]", "(", "x", ")">> }

\* the request slots: tool calls the server has in flight at the same time
Procs == {1, 2}

\* category_id IS NULL
NoCategory == 0

\* an optional tool argument is <<>> when omitted and <<v>> when given
Omitted == <<>>

\* update: topic
TopicArgs == {NameGo, NameGoR, NameGoDashR}

\* update: content
ContentEmpty == <<>>
ContentSpaced == <<"G", " ", "o">>
ContentLink == <<"[", "G", "o", "]", "(", "x", ")">>
ContentTwo == <<"G", "o", "-", "R", " ", "G", " ", "o", " ", "R">>

ContentArgs == {ContentEmpty, ContentSpaced, ContentLink, ContentTwo}

\* the topics and contents of the calls that run concurrently
ConcurrentTopicArgs == {NameGo, NameGoR}

ConcurrentContentArgs == {ContentSpaced, ContentLink}

\* update: category
CategoryArgs == {Omitted, <<"c1">>}

\* update: detectReferences
DetectArgs == {Omitted, <<FALSE>>}

\* createRelation: relationType
RelationTypeArgs == {"references", "similar"}

\* createRelation: strength, in hundredths
StrengthArgs == {Omitted, <<30>>, <<150>>}

\* toggleTopicStatus, deleteTopic, lookUp, addAttachment: topic
AdminTopicArgs == {NameGo, NameGoR}

\* update, in the runs that mix it with the administration tools: content
AdminContentArgs == {ContentEmpty, ContentSpaced}

\* listTopics: includeInactive
IncludeInactiveArgs == {Omitted, <<TRUE>>}

\* search: query
QueryArgs == {NameGo, NameGoR}

\* addAttachment: fileName
FileNameArgs == {"f"}

\* importVault: overwrite
OverwriteArgs == {Omitted, <<TRUE>>}

\* importVault: data, as JSON.parse returns it. An export of a vault whose topic
\* "Go" has no category, with one relation whose strength is 1.5
ImportGo ==
  [ format |-> "knowledgevault-export-v1",
    topics |-> << [name |-> NameGo, slug |-> <<"g", "o">>, category |-> Omitted,
                   content |-> ContentSpaced] >>,
    relations |-> << [sourceTopic |-> NameGo, targetTopic |-> NameGoR,
                      relationType |-> "similar", strength |-> 150] >> ]

\* importVault: data with a topic "Go#" of category "c1" and the relation the
\* detector would have written for its content
ImportGoHash ==
  [ format |-> "knowledgevault-export-v1",
    topics |-> << [name |-> NameGoHash, slug |-> <<"g", "o", "-">>,
                   category |-> <<"c1">>, content |-> NameGo] >>,
    relations |-> << [sourceTopic |-> NameGoHash, targetTopic |-> NameGo,
                      relationType |-> "references", strength |-> 90] >> ]

\* importVault: data of another format
ImportOther == [format |-> "other", topics |-> <<>>, relations |-> <<>>]

ImportArgs == {ImportGo, ImportGoHash, ImportOther}

(***************************************************************************)
(* The database after initializeDb on a new file, and no call in flight.   *)
(***************************************************************************)
IdleCall ==
  [ op |-> "none", pc |-> "idle",
    topic |-> <<>>, content |-> <<>>, category |-> Omitted,
    detectReferences |-> Omitted,
    sourceTopic |-> <<>>, targetTopic |-> <<>>, relationType |-> "",
    strength |-> Omitted,
    categoryId |-> NoCategory, existingContent |-> <<>>, topicId |-> 0,
    mentions |-> <<>>, next |-> 0, mentionedId |-> 0, resolved |-> <<>>,
    sourceId |-> 0, targetId |-> 0,
    result |-> "none", error |-> "none", scans |-> 0, upsertFailed |-> FALSE,
    confirm |-> FALSE, setInactive |-> FALSE, includeInactive |-> Omitted,
    query |-> <<>>, fileName |-> "", data |-> ImportOther, overwrite |-> Omitted,
    relationId |-> 0, returned |-> {},
    imported |-> 0, skipped |-> 0, relationsImported |-> 0, relationsSkipped |-> 0 ]

\* no file at exportPath
NoExport == [format |-> "none", topics |-> <<>>, relations |-> <<>>]

NoFile ==
  /\ exportFile = NoExport
  /\ exportedVault = [topics |-> {}, relations |-> {}]

InitVault ==
  /\ NoFile
  /\ topics = {}
  /\ categories = {}
  /\ topic_relations = {}
  /\ topic_history = <<>>
  /\ attachments = {}
  /\ lastID = [topics |-> 0, categories |-> 0, topic_relations |-> 0, attachments |-> 0]
  /\ call = [p \in Procs |-> IdleCall]
  /\ started = 0
  /\ lastWrite = <<>>

NoDetectorRun ==
  /\ detNames = <<>>
  /\ detContent = <<>>
  /\ detParts = 0
  /\ detResult = <<>>
  /\ detPc = "off"

(***************************************************************************)
(* Detector specification: a name index, a content built part by part,     *)
(* then one call of findCrossReferences.                                   *)
(***************************************************************************)
InitDetect ==
  /\ InitVault
  /\ detNames \in NameIndexes
  /\ detContent = <<>>
  /\ detParts = 0
  /\ detResult = <<>>
  /\ detPc = "build"

AppendPart(part) ==
  /\ detPc = "build"
  /\ detParts < MaxParts
  /\ detContent' = detContent \o part
  /\ detParts' = detParts + 1
  /\ UNCHANGED <<detNames, detResult, detPc>>
  /\ UNCHANGED vaultVars

Detect ==
  /\ detPc = "build"
  /\ IF DetectionThrows(detNames)
     THEN /\ detResult' = <<>>
          /\ detPc' = "threw"
     ELSE /\ detResult' = findCrossReferences(detContent, detNames)
          /\ detPc' = "done"
  /\ UNCHANGED <<detNames, detContent, detParts>>
  /\ UNCHANGED vaultVars

NextDetect ==
  \/ \E part \in ContentParts : AppendPart(part)
  \/ Detect

SpecDetect == InitDetect /\ [][NextDetect]_vars

\* the same run over the name indexes of FreeNamePool
InitDetectFree ==
  /\ InitVault
  /\ detNames \in FreeNameIndexes
  /\ detContent = <<>>
  /\ detParts = 0
  /\ detResult = <<>>
  /\ detPc = "build"

SpecDetectFree == InitDetectFree /\ [][NextDetect]_vars

(***************************************************************************)
(* SQL statements of the tool handlers.                                    *)
(***************************************************************************)
\* SELECT id FROM categories WHERE name = ?
CategoriesByName(name) == {c \in categories : c.name = name}

\* SELECT ... FROM topics WHERE slug = ? AND category_id IS ?
TopicsBySlugAndCategory(slug, categoryId) ==
  {t \in topics : t.slug = slug /\ t.category_id = categoryId}

\* SELECT id FROM topics WHERE slug = ?
TopicsBySlug(slug) == {t \in topics : t.slug = slug}

\* rows ordered by rowid
RECURSIVE NamesByRowid(_)
NamesByRowid(rows) ==
  IF rows = {} THEN <<>>
  ELSE LET first == CHOOSE t \in rows : \A u \in rows : t.id <= u.id
       IN <<first.name>> \o NamesByRowid(rows \ {first})

\* SELECT name FROM topics: a scan of the table
AllTopicNames == NamesByRowid(topics)

SameTriple(r, source_id, target_id, relationship_type) ==
  /\ r.source_id = source_id
  /\ r.target_id = target_id
  /\ r.relationship_type = relationship_type

\* INSERT OR IGNORE INTO topic_relations ...: an existing edge keeps its strength
InsertOrIgnoreRelation(rows, last, source_id, target_id, relationship_type, strength) ==
  IF \E r \in rows : SameTriple(r, source_id, target_id, relationship_type)
  THEN [rows |-> rows, last |-> last]
  ELSE [rows |-> rows \cup
                   {[id |-> last + 1, source_id |-> source_id, target_id |-> target_id,
                     relationship_type |-> relationship_type,
                     relationship_strength |-> strength]},
        last |-> last + 1]

\* INSERT INTO topic_relations ... with no ON CONFLICT clause
InsertRelation(rows, last, source_id, target_id, relationship_type, strength) ==
  [rows |-> rows \cup
              {[id |-> last + 1, source_id |-> source_id, target_id |-> target_id,
                relationship_type |-> relationship_type,
                relationship_strength |-> strength]},
   last |-> last + 1]

\* the upsert of an edge that first drops the other edges of that type from the
\* same source: the edge list of a topic rebuilt on every write
UpsertRelationPruning(rows, last, source_id, target_id, relationship_type, strength) ==
  LET kept == {r \in rows :
                 ~(/\ r.source_id = source_id
                   /\ r.relationship_type = relationship_type
                   /\ r.target_id # target_id)}
  IN IF \E r \in kept : SameTriple(r, source_id, target_id, relationship_type)
     THEN [rows |-> {IF SameTriple(r, source_id, target_id, relationship_type)
                     THEN [r EXCEPT !.relationship_strength = strength]
                     ELSE r : r \in kept},
           last |-> last]
     ELSE [rows |-> kept \cup
                      {[id |-> last + 1, source_id |-> source_id, target_id |-> target_id,
                        relationship_type |-> relationship_type,
                        relationship_strength |-> strength]},
           last |-> last + 1]

\* INSERT INTO topic_relations (...) VALUES (?, ?, ?, ?)
\* ON CONFLICT (source_id, target_id, relationship_type)
\* DO UPDATE SET relationship_strength = excluded.relationship_strength
UpsertRelation(rows, last, source_id, target_id, relationship_type, strength) ==
  IF \E r \in rows : SameTriple(r, source_id, target_id, relationship_type)
  THEN [rows |-> {IF SameTriple(r, source_id, target_id, relationship_type)
                  THEN [r EXCEPT !.relationship_strength = strength]
                  ELSE r : r \in rows},
        last |-> last]
  ELSE [rows |-> rows \cup
                   {[id |-> last + 1, source_id |-> source_id, target_id |-> target_id,
                     relationship_type |-> relationship_type,
                     relationship_strength |-> strength]},
        last |-> last + 1]

\* UNIQUE(source_id, target_id, relationship_type) of topic_relations
RelationsUnique(rows) ==
  \A r1, r2 \in rows :
    SameTriple(r1, r2.source_id, r2.target_id, r2.relationship_type) => r1 = r2

(***************************************************************************)
(* Control flow of a handler between two awaits.                           *)
(***************************************************************************)
\* return { content: [...] }
Return(c) == [c EXCEPT !.pc = "done", !.result = "success"]

\* return { content: [...], isError: true }
ReturnError(c) == [c EXCEPT !.pc = "done", !.result = "isError"]

\* a rejected db call: the exception leaves the handler
Throw(c, error) == [c EXCEPT !.pc = "done", !.result = "error", !.error = error]

\* detectReferences = true, the default when the argument is omitted
DetectEnabledAlways(flag) == TRUE

DetectEnabled(flag) == IF flag = Omitted THEN TRUE ELSE flag[1]

\* strength = 1, whenever the argument is omitted
StrengthOrDefaultOne(strength) == IF strength = Omitted THEN 100 ELSE strength[1]

\* strength = 0.5, the default when the argument is omitted
StrengthOrDefault(strength) == IF strength = Omitted THEN 50 ELSE strength[1]

\* z.number().min(0).max(1).default(0.5).optional(), in hundredths
StrengthValid(strength) ==
  strength = Omitted \/ (0 <= strength[1] /\ strength[1] <= 100)

\* after the content is stored: if (detectReferences) { ... } return
AfterContentWrite(c) ==
  IF DetectEnabled(c.detectReferences) THEN [c EXCEPT !.pc = "scan"] ELSE Return(c)

\* the for loop over mentions: the next mention, or the return after the loop
NextMention(c) ==
  IF c.next + 1 > Len(c.mentions) THEN Return(c)
  ELSE [c EXCEPT !.next = c.next + 1, !.pc = "resolve"]

\* mentionedTopic && mentionedTopic.id !== topicId, without the second test
ShouldLinkNoSelfTest(mentionedId, topicId) == mentionedId # 0

\* mentionedTopic && mentionedTopic.id !== topicId
ShouldLink(mentionedId, topicId) == mentionedId # 0 /\ mentionedId # topicId

\* confidence * 0.7, in hundredths
ReverseStrength(confidence) == (confidence * 70) \div 100

\* a rejected upsert caught and logged, the loop going on
UpsertFailureSwallowed(c) ==
  IF c.pc = "upsertForward" THEN [c EXCEPT !.pc = "upsertReverse"] ELSE NextMention(c)

\* await db.run(...) of an upsert rejects: nothing catches it
UpsertFailure(c) == Throw(c, "storage")

\* the edge the call writes with its next statement
PendingEdge(c) ==
  CASE c.pc = "upsertForward" ->
         [source_id |-> c.topicId, target_id |-> c.mentionedId,
          relationship_type |-> "references",
          strength |-> c.mentions[c.next].confidence]
    [] c.pc = "upsertReverse" ->
         [source_id |-> c.mentionedId, target_id |-> c.topicId,
          relationship_type |-> "referenced_by",
          strength |-> ReverseStrength(c.mentions[c.next].confidence)]
    [] OTHER ->
         [source_id |-> c.sourceId, target_id |-> c.targetId,
          relationship_type |-> c.relationType,
          strength |-> StrengthOrDefault(c.strength)]

(***************************************************************************)
(* The tool handlers, one action per awaited database statement together   *)
(* with the synchronous code that follows it up to the next await.         *)
(***************************************************************************)
SetCall(p, c) == call' = [call EXCEPT ![p] = c]

\* the server receives an update request
StartUpdate(p, topic, content, category, detectReferences) ==
  /\ call[p].pc = "idle"
  /\ started < MaxCalls
  /\ started' = started + 1
  /\ SetCall(p, [IdleCall EXCEPT
                   !.op = "update", !.topic = topic, !.content = content,
                   !.category = category, !.detectReferences = detectReferences,
                   !.pc = IF category # Omitted THEN "getCategory" ELSE "findTopic"])
  /\ UNCHANGED <<dbVars, lastWrite, detVars, fileVars>>

\* the server receives a createRelation request; arguments that fail the schema are
\* rejected before the handler runs
StartCreateRelation(p, sourceTopic, targetTopic, relationType, strength) ==
  /\ call[p].pc = "idle"
  /\ started < MaxCalls
  /\ started' = started + 1
  /\ LET c == [IdleCall EXCEPT
                 !.op = "createRelation", !.sourceTopic = sourceTopic,
                 !.targetTopic = targetTopic, !.relationType = relationType,
                 !.strength = strength]
     IN IF StrengthValid(strength)
        THEN SetCall(p, [c EXCEPT !.pc = "getSource"])
        ELSE SetCall(p, Throw(c, "invalid params"))
  /\ UNCHANGED <<dbVars, lastWrite, detVars, fileVars>>

\* update: SELECT id FROM categories WHERE name = ?
GetCategory(p) ==
  LET c == call[p]
      found == CategoriesByName(c.category[1])
  IN /\ c.pc = "getCategory"
     /\ IF found # {}
        THEN \E existingCategory \in found :
               SetCall(p, [c EXCEPT !.categoryId = existingCategory.id,
                                    !.pc = "findTopic"])
        ELSE SetCall(p, [c EXCEPT !.pc = "insertCategory"])
     /\ UNCHANGED <<dbVars, started, lastWrite, detVars, fileVars>>

\* update: INSERT INTO categories (name) VALUES (?); name is UNIQUE
InsertCategory(p) ==
  LET c == call[p]
      id == lastID.categories + 1
  IN /\ c.pc = "insertCategory"
     /\ IF CategoriesByName(c.category[1]) # {}
        THEN /\ SetCall(p, Throw(c, "constraint: categories"))
             /\ UNCHANGED <<categories, lastID>>
        ELSE /\ categories' = categories \cup {[id |-> id, name |-> c.category[1]]}
             /\ lastID' = [lastID EXCEPT !.categories = id]
             /\ SetCall(p, [c EXCEPT !.categoryId = id, !.pc = "findTopic"])
     /\ UNCHANGED <<topics, topic_relations, topic_history, attachments, started, lastWrite, detVars, fileVars>>

\* update: SELECT id, content, content_type FROM topics
\*         WHERE slug = ? AND category_id IS ?
FindTopic(p) ==
  LET c == call[p]
      found == TopicsBySlugAndCategory(topicToSlug(c.topic), c.categoryId)
  IN /\ c.pc = "findTopic"
     /\ IF found # {}
        THEN \E existingTopic \in found :
               SetCall(p, [c EXCEPT !.topicId = existingTopic.id,
                                    !.existingContent = existingTopic.content,
                                    !.pc = "insertHistory"])
        ELSE SetCall(p, [c EXCEPT !.pc = "insertTopic"])
     /\ UNCHANGED <<dbVars, started, lastWrite, detVars, fileVars>>

\* update, topic exists: INSERT INTO topic_history the content read before
InsertHistory(p) ==
  LET c == call[p]
  IN /\ c.pc = "insertHistory"
     /\ topic_history' =
          Append(topic_history, [topic_id |-> c.topicId, content |-> c.existingContent])
     /\ SetCall(p, [c EXCEPT !.pc = "updateTopic"])
     /\ UNCHANGED <<topics, categories, topic_relations, lastID, attachments, started, lastWrite,
                    detVars, fileVars>>

\* update, topic exists: UPDATE topics SET content = ? ... WHERE id = ?
UpdateTopic(p) ==
  LET c == call[p]
  IN /\ c.pc = "updateTopic"
     /\ topics' = {IF t.id = c.topicId THEN [t EXCEPT !.content = c.content] ELSE t :
                     t \in topics}
     /\ SetCall(p, AfterContentWrite(c))
     /\ UNCHANGED <<categories, topic_relations, topic_history, lastID, attachments, started,
                    lastWrite, detVars, fileVars>>

\* update, new topic: INSERT INTO topics (name, slug, category_id, content, ...);
\* UNIQUE (slug, category_id), which SQLite does not enforce for a NULL category_id
InsertTopic(p) ==
  LET c == call[p]
      slug == topicToSlug(c.topic)
      id == lastID.topics + 1
  IN /\ c.pc = "insertTopic"
     /\ IF c.categoryId # NoCategory /\ TopicsBySlugAndCategory(slug, c.categoryId) # {}
        THEN /\ SetCall(p, Throw(c, "constraint: topics"))
             /\ UNCHANGED <<topics, lastID>>
        ELSE /\ topics' = topics \cup
                  {[id |-> id, name |-> c.topic, slug |-> slug,
                    category_id |-> c.categoryId, content |-> c.content,
                    is_inactive |-> FALSE]}
             /\ lastID' = [lastID EXCEPT !.topics = id]
             /\ SetCall(p, [c EXCEPT !.topicId = id, !.pc = "insertInitialHistory"])
     /\ UNCHANGED <<categories, topic_relations, topic_history, attachments, started, lastWrite,
                    detVars, fileVars>>

\* update, new topic: INSERT INTO topic_history the initial version
InsertInitialHistory(p) ==
  LET c == call[p]
  IN /\ c.pc = "insertInitialHistory"
     /\ topic_history' =
          Append(topic_history, [topic_id |-> c.topicId, content |-> c.content])
     /\ SetCall(p, AfterContentWrite(c))
     /\ UNCHANGED <<topics, categories, topic_relations, lastID, attachments, started, lastWrite,
                    detVars, fileVars>>

\* update: findCrossReferences(content), its SELECT name FROM topics and the scan
Scan(p) ==
  LET c == call[p]
      mentions == findCrossReferences(c.content, AllTopicNames)
      scanned == [c EXCEPT !.mentions = mentions, !.next = 0, !.scans = c.scans + 1]
  IN /\ c.pc = "scan"
     /\ IF DetectionThrows(AllTopicNames)
        THEN SetCall(p, Throw(c, "SyntaxError"))
        ELSE SetCall(p, NextMention(scanned))
     /\ UNCHANGED <<dbVars, started, lastWrite, detVars, fileVars>>

\* update: SELECT id FROM topics WHERE slug = ? for the mention at hand; which of
\* several rows with that slug db.get returns is not specified
Resolve(p) ==
  LET c == call[p]
      found == TopicsBySlug(topicToSlug(c.mentions[c.next].name))
      ids == IF found = {} THEN {0} ELSE {t.id : t \in found}
  IN /\ c.pc = "resolve"
     /\ \E id \in ids :
          LET r == [c EXCEPT !.mentionedId = id, !.resolved = Append(c.resolved, id)]
          IN IF ShouldLink(id, c.topicId)
             THEN SetCall(p, [r EXCEPT !.pc = "upsertForward"])
             ELSE SetCall(p, NextMention(r))
     /\ UNCHANGED <<dbVars, started, lastWrite, detVars, fileVars>>

\* the (source_id, target_id, relationship_type) of an edge
EdgeKey(e) == <<e.source_id, e.target_id, e.relationship_type>>

\* one upsert statement on topic_relations: it is applied, or the storage rejects it
ExecUpsert(p, after) ==
  LET c == call[p]
      e == PendingEdge(c)
      w == UpsertRelation(topic_relations, lastID.topic_relations,
                          e.source_id, e.target_id, e.relationship_type, e.strength)
  IN \E fault \in BOOLEAN :
       IF fault
       THEN /\ SetCall(p, [UpsertFailure(c) EXCEPT !.upsertFailed = TRUE])
            /\ UNCHANGED <<topic_relations, lastID, lastWrite>>
       ELSE IF ~RelationsUnique(w.rows)
       THEN /\ SetCall(p, Throw(c, "constraint: topic_relations"))
            /\ UNCHANGED <<topic_relations, lastID, lastWrite>>
       ELSE /\ topic_relations' = w.rows
            /\ lastID' = [lastID EXCEPT !.topic_relations = w.last]
            /\ lastWrite' =
                 (EdgeKey(e) :>
                    [strength |-> e.strength,
                     replaced |->
                       \/ EdgeKey(e) \in DOMAIN lastWrite /\ lastWrite[EdgeKey(e)].replaced
                       \/ \E r \in topic_relations :
                            /\ SameTriple(r, e.source_id, e.target_id, e.relationship_type)
                            /\ r.relationship_strength # e.strength])
                   @@ lastWrite
            /\ SetCall(p, after)

\* update: upsert of (topicId, mentionedTopic.id, 'references', confidence)
UpsertForward(p) ==
  /\ call[p].pc = "upsertForward"
  /\ ExecUpsert(p, [call[p] EXCEPT !.pc = "upsertReverse"])
  /\ UNCHANGED <<topics, categories, topic_history, attachments, started, detVars, fileVars>>

\* update: upsert of (mentionedTopic.id, topicId, 'referenced_by', confidence * 0.7)
UpsertReverse(p) ==
  /\ call[p].pc = "upsertReverse"
  /\ ExecUpsert(p, NextMention(call[p]))
  /\ UNCHANGED <<topics, categories, topic_history, attachments, started, detVars, fileVars>>

\* createRelation: SELECT id FROM topics WHERE slug = ? for the source topic
GetSource(p) ==
  LET c == call[p]
      found == TopicsBySlug(topicToSlug(c.sourceTopic))
      ids == IF found = {} THEN {0} ELSE {t.id : t \in found}
  IN /\ c.pc = "getSource"
     /\ \E id \in ids : SetCall(p, [c EXCEPT !.sourceId = id, !.pc = "getTarget"])
     /\ UNCHANGED <<dbVars, started, lastWrite, detVars, fileVars>>

\* createRelation: SELECT id FROM topics WHERE slug = ? for the target topic,
\* then if (!source || !target) return the error result
GetTarget(p) ==
  LET c == call[p]
      found == TopicsBySlug(topicToSlug(c.targetTopic))
      ids == IF found = {} THEN {0} ELSE {t.id : t \in found}
  IN /\ c.pc = "getTarget"
     /\ \E id \in ids :
          IF c.sourceId = 0 \/ id = 0
          THEN SetCall(p, ReturnError([c EXCEPT !.targetId = id]))
          ELSE SetCall(p, [c EXCEPT !.targetId = id, !.pc = "upsertManual"])
     /\ UNCHANGED <<dbVars, started, lastWrite, detVars, fileVars>>

\* createRelation: upsert of (source.id, target.id, relationType, strength)
UpsertManual(p) ==
  /\ call[p].pc = "upsertManual"
  /\ ExecUpsert(p, Return(call[p]))
  /\ UNCHANGED <<topics, categories, topic_history, attachments, started, detVars, fileVars>>

\* the response of a finished call has been sent: the slot is free again
Finish(p) ==
  /\ call[p].pc = "done"
  /\ SetCall(p, IdleCall)
  /\ UNCHANGED <<dbVars, started, lastWrite, detVars, fileVars>>

\* one step of the call in slot p
Step(p) ==
  \/ GetCategory(p)
  \/ InsertCategory(p)
  \/ FindTopic(p)
  \/ InsertHistory(p)
  \/ UpdateTopic(p)
  \/ InsertTopic(p)
  \/ InsertInitialHistory(p)
  \/ Scan(p)
  \/ Resolve(p)
  \/ UpsertForward(p)
  \/ UpsertReverse(p)
  \/ GetSource(p)
  \/ GetTarget(p)
  \/ UpsertManual(p)
  \/ Finish(p)

\* a request arrives in slot p, its topic names and content drawn from the given sets
Start(p, topicArgs, contentArgs) ==
  \/ \E topic \in topicArgs, content \in contentArgs, category \in CategoryArgs,
        detectReferences \in DetectArgs :
       StartUpdate(p, topic, content, category, detectReferences)
  \/ \E sourceTopic \in topicArgs, targetTopic \in topicArgs,
        relationType \in RelationTypeArgs, strength \in StrengthArgs :
       StartCreateRelation(p, sourceTopic, targetTopic, relationType, strength)

(***************************************************************************)
(* The reading tools and toggleTopicStatus.                                *)
(***************************************************************************)
\* the text a listing appends to the name of an inactive topic
InactiveMark == <<" ", "(", "i", "n", "a", "c", "t", "i", "v", "e", ")">>

\* t.is_inactive ? `${t.name} (inactive)` : t.name
ListLabel(t) == IF t.is_inactive THEN t.name \o InactiveMark ELSE t.name

\* includeInactive = true, whatever the caller passed
IncludeInactiveAlways(flag) == TRUE

\* includeInactive = false, the default when the argument is omitted
IncludeInactive(flag) == IF flag = Omitted THEN FALSE ELSE flag[1]

\* ${!includeInactive ? 'AND t.is_inactive = 0' : ''}
ActiveFilter(t, includeInactive) == IncludeInactive(includeInactive) \/ ~t.is_inactive

\* one line of a listing: the topic it came from, its heading and its text
ListEntry(t, heading) == [id |-> t.id, category |-> heading, text |-> ListLabel(t)]

\* topics t JOIN categories c ON t.category_id = c.id
TopicsJoinCategories == {x \in topics \X categories : x[1].category_id = x[2].id}

\* listTopics with a category: SELECT t.name, t.is_inactive FROM topics t JOIN
\* categories c ... WHERE c.name = ? [AND t.is_inactive = 0]
ListedInCategory(category, includeInactive) ==
  {ListEntry(x[1], category) :
     x \in {y \in TopicsJoinCategories :
              y[2].name = category /\ ActiveFilter(y[1], includeInactive)}}

\* listTopics: SELECT name, is_inactive FROM topics WHERE category_id IS NULL
\* [AND is_inactive = 0], listed under "(No category)"
ListedUncategorized(includeInactive) ==
  {ListEntry(t, "(No category)") :
     t \in {u \in topics : u.category_id = NoCategory /\ ActiveFilter(u, includeInactive)}}

\* listTopics: SELECT c.name, t.name, t.is_inactive FROM topics t JOIN categories c
\* ... [WHERE t.is_inactive = 0], grouped by category name
ListedCategorized(includeInactive) ==
  {ListEntry(x[1], x[2].name) :
     x \in {y \in TopicsJoinCategories : ActiveFilter(y[1], includeInactive)}}

\* lookUp: the rows of its SELECT, with the category join or by slug alone
LookUpRows(slug, category) ==
  IF category # Omitted
  THEN {x[1] : x \in {y \in TopicsJoinCategories :
                        y[1].slug = slug /\ y[2].name = category[1]}}
  ELSE TopicsBySlug(slug)

\* the index of the first character at or after i that is no white space
RECURSIVE SkipSpaces(_, _)
SkipSpaces(s, i) ==
  IF i <= Len(s) /\ IsSpace(s[i]) THEN SkipSpaces(s, i + 1) ELSE i

\* query.split(/\s+/) from index i on, cur being the term read so far
RECURSIVE SplitFrom(_, _, _)
SplitFrom(s, i, cur) ==
  IF i > Len(s) THEN <<cur>>
  ELSE IF IsSpace(s[i]) THEN <<cur>> \o SplitFrom(s, SkipSpaces(s, i), <<>>)
  ELSE SplitFrom(s, i + 1, Append(cur, s[i]))

\* query.split(/\s+/)
SearchTerms(query) == SplitFrom(query, 1, <<>>)

\* text LIKE '%term%' for a term without wildcards: a substring, ignoring case
Like(text, term) ==
  \/ Len(term) = 0
  \/ \E start \in 1..Len(text) : LiteralAt(term, text, start)

\* search: (t.name LIKE ? OR t.content LIKE ?) for every term [AND c.name = ?]
SearchRows(query, category) ==
  {t \in topics :
     /\ \A i \in 1..Len(SearchTerms(query)) :
          \/ Like(t.name, SearchTerms(query)[i])
          \/ Like(t.content, SearchTerms(query)[i])
     /\ category # Omitted =>
          \E c \in categories : c.id = t.category_id /\ c.name = category[1]}

\* search: LIMIT 20
SearchLimit == 20

\* UPDATE topics SET is_inactive = ? WHERE id = ?, storing the opposite value
SetInactiveFlipped(rows, id, setInactive) ==
  {IF t.id = id THEN [t EXCEPT !.is_inactive = ~setInactive] ELSE t : t \in rows}

\* UPDATE topics SET is_inactive = ? WHERE id = ?
SetInactive(rows, id, setInactive) ==
  {IF t.id = id THEN [t EXCEPT !.is_inactive = setInactive] ELSE t : t \in rows}

\* what a reading tool returns for a row: the topic and the text shown
Shown(t) == [id |-> t.id, category |-> "", text |-> t.content]

\* the server receives a toggleTopicStatus request
StartToggle(p, topic, setInactive) ==
  /\ call[p].pc = "idle"
  /\ started < MaxCalls
  /\ started' = started + 1
  /\ SetCall(p, [IdleCall EXCEPT !.op = "toggleTopicStatus", !.topic = topic,
                                 !.setInactive = setInactive, !.pc = "toggleGet"])
  /\ UNCHANGED <<dbVars, lastWrite, detVars, fileVars>>

\* toggleTopicStatus: SELECT id, name, is_inactive FROM topics WHERE slug = ?, the
\* not-found and the already-in-that-state returns
ToggleGet(p) ==
  LET c == call[p]
      found == TopicsBySlug(topicToSlug(c.topic))
  IN /\ c.pc = "toggleGet"
     /\ IF found = {}
        THEN SetCall(p, ReturnError(c))
        ELSE \E topicResult \in found :
               IF topicResult.is_inactive = c.setInactive
               THEN SetCall(p, Return([c EXCEPT !.topicId = topicResult.id]))
               ELSE SetCall(p, [c EXCEPT !.topicId = topicResult.id, !.pc = "toggleSet"])
     /\ UNCHANGED <<dbVars, started, lastWrite, detVars, fileVars>>

\* toggleTopicStatus: UPDATE topics SET is_inactive = ? WHERE id = ?
ToggleSet(p) ==
  LET c == call[p]
  IN /\ c.pc = "toggleSet"
     /\ topics' = SetInactive(topics, c.topicId, c.setInactive)
     /\ SetCall(p, Return(c))
     /\ UNCHANGED <<categories, topic_relations, topic_history, attachments, lastID,
                    started, lastWrite, detVars, fileVars>>

\* the server receives a listTopics request
StartList(p, category, includeInactive) ==
  /\ call[p].pc = "idle"
  /\ started < MaxCalls
  /\ started' = started + 1
  /\ SetCall(p, [IdleCall EXCEPT
                   !.op = "listTopics", !.category = category,
                   !.includeInactive = includeInactive,
                   !.pc = IF category # Omitted THEN "listCategory"
                          ELSE "listUncategorized"])
  /\ UNCHANGED <<dbVars, lastWrite, detVars, fileVars>>

\* listTopics with a category: its one SELECT, then the result
ListCategory(p) ==
  LET c == call[p]
  IN /\ c.pc = "listCategory"
     /\ SetCall(p, Return([c EXCEPT
                             !.returned = ListedInCategory(c.category[1],
                                                           c.includeInactive)]))
     /\ UNCHANGED <<dbVars, started, lastWrite, detVars, fileVars>>

\* listTopics without a category: the SELECT of the uncategorized topics
ListUncategorized(p) ==
  LET c == call[p]
  IN /\ c.pc = "listUncategorized"
     /\ SetCall(p, [c EXCEPT !.returned = ListedUncategorized(c.includeInactive),
                             !.pc = "listCategorized"])
     /\ UNCHANGED <<dbVars, started, lastWrite, detVars, fileVars>>

\* listTopics without a category: the SELECT of the topics by category, then the
\* result
ListCategorized(p) ==
  LET c == call[p]
  IN /\ c.pc = "listCategorized"
     /\ SetCall(p, Return([c EXCEPT
                             !.returned = c.returned \cup
                                          ListedCategorized(c.includeInactive)]))
     /\ UNCHANGED <<dbVars, started, lastWrite, detVars, fileVars>>

\* the server receives a lookUp request
StartLookUp(p, topic, category) ==
  /\ call[p].pc = "idle"
  /\ started < MaxCalls
  /\ started' = started + 1
  /\ SetCall(p, [IdleCall EXCEPT !.op = "lookUp", !.topic = topic,
                                 !.category = category, !.pc = "lookUpGet"])
  /\ UNCHANGED <<dbVars, lastWrite, detVars, fileVars>>

\* lookUp: its SELECT, of which db.get returns one row, then the result
LookUpGet(p) ==
  LET c == call[p]
      found == LookUpRows(topicToSlug(c.topic), c.category)
  IN /\ c.pc = "lookUpGet"
     /\ IF found = {}
        THEN SetCall(p, ReturnError(c))
        ELSE \E result \in found :
               SetCall(p, Return([c EXCEPT !.returned = {Shown(result)}]))
     /\ UNCHANGED <<dbVars, started, lastWrite, detVars, fileVars>>

\* the server receives a search request
StartSearch(p, query, category) ==
  /\ call[p].pc = "idle"
  /\ started < MaxCalls
  /\ started' = started + 1
  /\ SetCall(p, [IdleCall EXCEPT !.op = "search", !.query = query,
                                 !.category = category, !.pc = "searchAll"])
  /\ UNCHANGED <<dbVars, lastWrite, detVars, fileVars>>

\* search: its SELECT ... LIMIT 20, then the result
SearchAll(p) ==
  LET c == call[p]
      found == SearchRows(c.query, c.category)
  IN /\ c.pc = "searchAll"
     /\ \E results \in SUBSET found :
          /\ Cardinality(results) = Min({Cardinality(found), SearchLimit})
          /\ SetCall(p, Return([c EXCEPT !.returned = {Shown(t) : t \in results}]))
     /\ UNCHANGED <<dbVars, started, lastWrite, detVars, fileVars>>

(***************************************************************************)
(* deleteTopic and addAttachment.                                          *)
(***************************************************************************)
\* a deleteTopic that goes ahead whatever confirm is
DeleteRefusedNever(confirm) == FALSE

\* if (!confirm)
DeleteRefused(confirm) == ~confirm

\* the server receives a deleteTopic request; if (!confirm) return the error
StartDelete(p, topic, confirm) ==
  /\ call[p].pc = "idle"
  /\ started < MaxCalls
  /\ started' = started + 1
  /\ LET c == [IdleCall EXCEPT !.op = "deleteTopic", !.topic = topic,
                               !.confirm = confirm]
     IN IF DeleteRefused(confirm)
        THEN SetCall(p, ReturnError(c))
        ELSE SetCall(p, [c EXCEPT !.pc = "deleteGet"])
  /\ UNCHANGED <<dbVars, lastWrite, detVars, fileVars>>

\* deleteTopic: SELECT id, name, category_id FROM topics WHERE slug = ?
DeleteGet(p) ==
  LET c == call[p]
      found == TopicsBySlug(topicToSlug(c.topic))
  IN /\ c.pc = "deleteGet"
     /\ IF found = {}
        THEN SetCall(p, ReturnError(c))
        ELSE \E topicResult \in found :
               SetCall(p, [c EXCEPT !.topicId = topicResult.id, !.pc = "deleteBegin"])
     /\ UNCHANGED <<dbVars, started, lastWrite, detVars, fileVars>>

\* deleteTopic: BEGIN TRANSACTION
DeleteBegin(p) ==
  /\ call[p].pc = "deleteBegin"
  /\ SetCall(p, [call[p] EXCEPT !.pc = "deleteAttachments"])
  /\ UNCHANGED <<dbVars, started, lastWrite, detVars, fileVars>>

\* deleteTopic: DELETE FROM attachments WHERE topic_id = ?
DeleteAttachments(p) ==
  LET c == call[p]
  IN /\ c.pc = "deleteAttachments"
     /\ attachments' = {a \in attachments : a.topic_id # c.topicId}
     /\ SetCall(p, [c EXCEPT !.pc = "deleteRelations"])
     /\ UNCHANGED <<topics, categories, topic_relations, topic_history, lastID,
                    started, lastWrite, detVars, fileVars>>

\* DELETE FROM topic_relations WHERE source_id = ?
RelationsWithoutSource(rows, id) == {r \in rows : r.source_id # id}

\* DELETE FROM topic_relations WHERE source_id = ? OR target_id = ?
RelationsWithout(rows, id) == {r \in rows : r.source_id # id /\ r.target_id # id}

\* deleteTopic: the DELETE of the relationships
DeleteRelations(p) ==
  LET c == call[p]
  IN /\ c.pc = "deleteRelations"
     /\ topic_relations' = RelationsWithout(topic_relations, c.topicId)
     /\ SetCall(p, [c EXCEPT !.pc = "deleteHistory"])
     /\ UNCHANGED <<topics, categories, topic_history, attachments, lastID, started,
                    lastWrite, detVars, fileVars>>

\* deleteTopic: DELETE FROM topic_history WHERE topic_id = ?
DeleteHistory(p) ==
  LET c == call[p]
  IN /\ c.pc = "deleteHistory"
     /\ topic_history' = SelectSeq(topic_history, LAMBDA h : h.topic_id # c.topicId)
     /\ SetCall(p, [c EXCEPT !.pc = "deleteRow"])
     /\ UNCHANGED <<topics, categories, topic_relations, attachments, lastID, started,
                    lastWrite, detVars, fileVars>>

\* deleteTopic: DELETE FROM topics WHERE id = ?
DeleteRow(p) ==
  LET c == call[p]
  IN /\ c.pc = "deleteRow"
     /\ topics' = {t \in topics : t.id # c.topicId}
     /\ SetCall(p, [c EXCEPT !.pc = "deleteCommit"])
     /\ UNCHANGED <<categories, topic_relations, topic_history, attachments, lastID,
                    started, lastWrite, detVars, fileVars>>

\* deleteTopic: COMMIT, then the result
DeleteCommit(p) ==
  /\ call[p].pc = "deleteCommit"
  /\ SetCall(p, Return(call[p]))
  /\ UNCHANGED <<dbVars, started, lastWrite, detVars, fileVars>>

\* the server receives an addAttachment request
StartAttach(p, topic, fileName) ==
  /\ call[p].pc = "idle"
  /\ started < MaxCalls
  /\ started' = started + 1
  /\ SetCall(p, [IdleCall EXCEPT !.op = "addAttachment", !.topic = topic,
                                 !.fileName = fileName, !.pc = "attachGet"])
  /\ UNCHANGED <<dbVars, lastWrite, detVars, fileVars>>

\* addAttachment: SELECT id FROM topics WHERE slug = ?
AttachGet(p) ==
  LET c == call[p]
      found == TopicsBySlug(topicToSlug(c.topic))
  IN /\ c.pc = "attachGet"
     /\ IF found = {}
        THEN SetCall(p, ReturnError(c))
        ELSE \E topicResult \in found :
               SetCall(p, [c EXCEPT !.topicId = topicResult.id, !.pc = "attachInsert"])
     /\ UNCHANGED <<dbVars, started, lastWrite, detVars, fileVars>>

\* addAttachment: the file is read, then INSERT INTO attachments (...)
AttachInsert(p) ==
  LET c == call[p]
      id == lastID.attachments + 1
  IN /\ c.pc = "attachInsert"
     /\ attachments' = attachments \cup
          {[id |-> id, topic_id |-> c.topicId, file_name |-> c.fileName]}
     /\ lastID' = [lastID EXCEPT !.attachments = id]
     /\ SetCall(p, Return(c))
     /\ UNCHANGED <<topics, categories, topic_relations, topic_history, started,
                    lastWrite, detVars, fileVars>>

(***************************************************************************)
(* importVault.                                                            *)
(***************************************************************************)
\* overwrite = true, whatever the caller passed
OverwriteAlways(flag) == TRUE

\* overwrite = false, the default when the argument is omitted
Overwrite(flag) == IF flag = Omitted THEN FALSE ELSE flag[1]

\* for (const relation of importData.relations): the relation at index i, or the
\* "Import complete" return after the loop
ImportRelationAt(c, i) ==
  IF i <= Len(c.data.relations)
  THEN [c EXCEPT !.next = i, !.sourceId = 0, !.targetId = 0, !.relationId = 0,
                 !.pc = "importGetSource"]
  ELSE Return(c)

\* for (const topic of importData.topics): the topic at index i, or the loop over
\* the relations after it
ImportTopicAt(c, i) ==
  IF i <= Len(c.data.topics)
  THEN [c EXCEPT !.next = i, !.topicId = 0, !.categoryId = NoCategory,
                 !.pc = "importFindTopic"]
  ELSE ImportRelationAt(c, 1)

\* the server receives an importVault request with data; the format test
StartImport(p, data, overwrite) ==
  /\ call[p].pc = "idle"
  /\ started < MaxCalls
  /\ started' = started + 1
  /\ LET c == [IdleCall EXCEPT !.op = "importVault", !.data = data,
                               !.overwrite = overwrite]
     IN IF data.format # "knowledgevault-export-v1"
        THEN SetCall(p, ReturnError(c))
        ELSE SetCall(p, ImportTopicAt(c, 1))
  /\ UNCHANGED <<dbVars, lastWrite, detVars, fileVars>>

\* importVault: SELECT id FROM topics WHERE slug = ? with the slug of the data,
\* the skip of an existing topic, and the choice of the next statement
ImportFindTopic(p) ==
  LET c == call[p]
      topic == c.data.topics[c.next]
      found == TopicsBySlug(topic.slug)
      ids == IF found = {} THEN {0} ELSE {t.id : t \in found}
  IN /\ c.pc = "importFindTopic"
     /\ \E id \in ids :
          IF id # 0 /\ ~Overwrite(c.overwrite)
          THEN SetCall(p, ImportTopicAt([c EXCEPT !.skipped = c.skipped + 1],
                                        c.next + 1))
          ELSE SetCall(p, [c EXCEPT
                             !.topicId = id,
                             !.pc = IF topic.category # Omitted THEN "importGetCategory"
                                    ELSE IF id # 0 THEN "importUpdateTopic"
                                    ELSE "importInsertTopic"])
     /\ UNCHANGED <<dbVars, started, lastWrite, detVars, fileVars>>

\* importVault: SELECT id FROM categories WHERE name = ?
ImportGetCategory(p) ==
  LET c == call[p]
      found == CategoriesByName(c.data.topics[c.next].category[1])
  IN /\ c.pc = "importGetCategory"
     /\ IF found # {}
        THEN \E category \in found :
               SetCall(p, [c EXCEPT !.categoryId = category.id,
                                    !.pc = IF c.topicId # 0 THEN "importUpdateTopic"
                                           ELSE "importInsertTopic"])
        ELSE SetCall(p, [c EXCEPT !.pc = "importInsertCategory"])
     /\ UNCHANGED <<dbVars, started, lastWrite, detVars, fileVars>>

\* importVault: INSERT INTO categories (name) VALUES (?); a rejected statement is
\* caught and reported as "Import failed"
ImportInsertCategory(p) ==
  LET c == call[p]
      name == c.data.topics[c.next].category[1]
      id == lastID.categories + 1
  IN /\ c.pc = "importInsertCategory"
     /\ IF CategoriesByName(name) # {}
        THEN /\ SetCall(p, ReturnError(c))
             /\ UNCHANGED <<categories, lastID>>
        ELSE /\ categories' = categories \cup {[id |-> id, name |-> name]}
             /\ lastID' = [lastID EXCEPT !.categories = id]
             /\ SetCall(p, [c EXCEPT !.categoryId = id,
                                     !.pc = IF c.topicId # 0 THEN "importUpdateTopic"
                                            ELSE "importInsertTopic"])
     /\ UNCHANGED <<topics, topic_relations, topic_history, attachments, started,
                    lastWrite, detVars, fileVars>>

\* UNIQUE (slug, category_id) of topics, which SQLite enforces among the rows
\* whose category_id is not NULL
TopicsUniqueEnforced(rows) ==
  \A t1, t2 \in rows :
    (t1.slug = t2.slug /\ t1.category_id = t2.category_id /\ t1.category_id # NoCategory)
      => t1.id = t2.id

\* importVault: UPDATE topics SET name = ?, content = ?, category_id = ? WHERE id = ?
ImportUpdateTopic(p) ==
  LET c == call[p]
      topic == c.data.topics[c.next]
      rows == {IF t.id = c.topicId
               THEN [t EXCEPT !.name = topic.name, !.content = topic.content,
                              !.category_id = c.categoryId]
               ELSE t : t \in topics}
  IN /\ c.pc = "importUpdateTopic"
     /\ IF ~TopicsUniqueEnforced(rows)
        THEN /\ SetCall(p, ReturnError(c))
             /\ UNCHANGED topics
        ELSE /\ topics' = rows
             /\ SetCall(p, ImportTopicAt([c EXCEPT !.imported = c.imported + 1],
                                         c.next + 1))
     /\ UNCHANGED <<categories, topic_relations, topic_history, attachments, lastID,
                    started, lastWrite, detVars, fileVars>>

\* importVault: INSERT INTO topics (name, slug, category_id, content)
ImportInsertTopic(p) ==
  LET c == call[p]
      topic == c.data.topics[c.next]
      id == lastID.topics + 1
      rows == topics \cup
                {[id |-> id, name |-> topic.name, slug |-> topic.slug,
                  category_id |-> c.categoryId, content |-> topic.content,
                  is_inactive |-> FALSE]}
  IN /\ c.pc = "importInsertTopic"
     /\ IF ~TopicsUniqueEnforced(rows)
        THEN /\ SetCall(p, ReturnError(c))
             /\ UNCHANGED <<topics, lastID>>
        ELSE /\ topics' = rows
             /\ lastID' = [lastID EXCEPT !.topics = id]
             /\ SetCall(p, ImportTopicAt([c EXCEPT !.imported = c.imported + 1],
                                         c.next + 1))
     /\ UNCHANGED <<categories, topic_relations, topic_history, attachments, started,
                    lastWrite, detVars, fileVars>>

\* SELECT id FROM topics WHERE name = ?: the ids of the rows, 0 standing for no row
IdsByName(name) ==
  IF \E t \in topics : t.name = name THEN {t.id : t \in {u \in topics : u.name = name}}
  ELSE {0}

\* importVault: SELECT id FROM topics WHERE name = ? for relation.sourceTopic
ImportGetSource(p) ==
  LET c == call[p]
  IN /\ c.pc = "importGetSource"
     /\ \E id \in IdsByName(c.data.relations[c.next].sourceTopic) :
          SetCall(p, [c EXCEPT !.sourceId = id, !.pc = "importGetTarget"])
     /\ UNCHANGED <<dbVars, started, lastWrite, detVars, fileVars>>

\* importVault: SELECT id FROM topics WHERE name = ? for relation.targetTopic, then
\* if (!source || !target) the relation is skipped
ImportGetTarget(p) ==
  LET c == call[p]
  IN /\ c.pc = "importGetTarget"
     /\ \E id \in IdsByName(c.data.relations[c.next].targetTopic) :
          IF c.sourceId = 0 \/ id = 0
          THEN SetCall(p, ImportRelationAt(
                            [c EXCEPT !.relationsSkipped = c.relationsSkipped + 1],
                            c.next + 1))
          ELSE SetCall(p, [c EXCEPT !.targetId = id, !.pc = "importFindRelation"])
     /\ UNCHANGED <<dbVars, started, lastWrite, detVars, fileVars>>

\* importVault: SELECT id FROM topic_relations WHERE source_id = ? AND target_id = ?
\* AND relationship_type = ?, the skip of an existing relation
ImportFindRelation(p) ==
  LET c == call[p]
      found == {r \in topic_relations :
                  SameTriple(r, c.sourceId, c.targetId,
                             c.data.relations[c.next].relationType)}
      ids == IF found = {} THEN {0} ELSE {r.id : r \in found}
  IN /\ c.pc = "importFindRelation"
     /\ \E id \in ids :
          IF id # 0 /\ ~Overwrite(c.overwrite)
          THEN SetCall(p, ImportRelationAt(
                            [c EXCEPT !.relationsSkipped = c.relationsSkipped + 1],
                            c.next + 1))
          ELSE SetCall(p, [c EXCEPT !.relationId = id,
                                    !.pc = IF id # 0 THEN "importUpdateRelation"
                                           ELSE "importInsertRelation"])
     /\ UNCHANGED <<dbVars, started, lastWrite, detVars, fileVars>>

\* importVault: UPDATE topic_relations SET relationship_strength = ? WHERE id = ?
ImportUpdateRelation(p) ==
  LET c == call[p]
      relation == c.data.relations[c.next]
  IN /\ c.pc = "importUpdateRelation"
     /\ topic_relations' =
          {IF r.id = c.relationId
           THEN [r EXCEPT !.relationship_strength = relation.strength]
           ELSE r : r \in topic_relations}
     /\ SetCall(p, ImportRelationAt(
                       [c EXCEPT !.relationsImported = c.relationsImported + 1],
                       c.next + 1))
     /\ UNCHANGED <<topics, categories, topic_history, attachments, lastID, started,
                    lastWrite, detVars, fileVars>>

\* importVault: INSERT INTO topic_relations (source_id, target_id,
\* relationship_type, relationship_strength) VALUES (?, ?, ?, ?)
ImportInsertRelation(p) ==
  LET c == call[p]
      relation == c.data.relations[c.next]
      id == lastID.topic_relations + 1
      rows == topic_relations \cup
                {[id |-> id, source_id |-> c.sourceId, target_id |-> c.targetId,
                  relationship_type |-> relation.relationType,
                  relationship_strength |-> relation.strength]}
  IN /\ c.pc = "importInsertRelation"
     /\ IF ~RelationsUnique(rows)
        THEN /\ SetCall(p, ReturnError(c))
             /\ UNCHANGED <<topic_relations, lastID>>
        ELSE /\ topic_relations' = rows
             /\ lastID' = [lastID EXCEPT !.topic_relations = id]
             /\ SetCall(p, ImportRelationAt(
                               [c EXCEPT !.relationsImported = c.relationsImported + 1],
                               c.next + 1))
     /\ UNCHANGED <<topics, categories, topic_history, attachments, started,
                    lastWrite, detVars, fileVars>>

\* requests arriving one at a time, each after the response to the one before,
\* on a new database file
InitSeq == InitVault /\ NoDetectorRun

NextSeq ==
  \/ (\A q \in Procs : call[q].pc = "idle") /\ Start(1, TopicArgs, ContentArgs)
  \/ Step(1)

SpecSeq == InitSeq /\ [][NextSeq]_vars

\* the server handles requests concurrently: handlers interleave at their awaits.
\* The run starts on the database file that a first call, update of topic "Go"
\* with empty content and no category, has left behind.
Init ==
  /\ topics = {[id |-> 1, name |-> NameGo, slug |-> topicToSlug(NameGo),
                category_id |-> NoCategory, content |-> ContentEmpty,
                is_inactive |-> FALSE]}
  /\ categories = {}
  /\ topic_relations = {}
  /\ topic_history = <<[topic_id |-> 1, content |-> ContentEmpty]>>
  /\ attachments = {}
  /\ lastID = [topics |-> 1, categories |-> 0, topic_relations |-> 0, attachments |-> 0]
  /\ call = [p \in Procs |-> IdleCall]
  /\ started = 1
  /\ lastWrite = <<>>
  /\ NoFile
  /\ NoDetectorRun

Next == \E p \in Procs : Start(p, ConcurrentTopicArgs, ConcurrentContentArgs) \/ Step(p)

Spec == Init /\ [][Next]_vars

\* one step of an administration or reading call in slot p
AdminStep(p) ==
  \/ ToggleGet(p)
  \/ ToggleSet(p)
  \/ ListCategory(p)
  \/ ListUncategorized(p)
  \/ ListCategorized(p)
  \/ LookUpGet(p)
  \/ SearchAll(p)
  \/ DeleteGet(p)
  \/ DeleteBegin(p)
  \/ DeleteAttachments(p)
  \/ DeleteRelations(p)
  \/ DeleteHistory(p)
  \/ DeleteRow(p)
  \/ DeleteCommit(p)
  \/ AttachGet(p)
  \/ AttachInsert(p)
  \/ ImportFindTopic(p)
  \/ ImportGetCategory(p)
  \/ ImportInsertCategory(p)
  \/ ImportUpdateTopic(p)
  \/ ImportInsertTopic(p)
  \/ ImportGetSource(p)
  \/ ImportGetTarget(p)
  \/ ImportFindRelation(p)
  \/ ImportUpdateRelation(p)
  \/ ImportInsertRelation(p)

\* an administration or reading request arrives in slot p
StartAdmin(p) ==
  \/ \E topic \in AdminTopicArgs, setInactive \in BOOLEAN :
       StartToggle(p, topic, setInactive)
  \/ \E category \in CategoryArgs, includeInactive \in IncludeInactiveArgs :
       StartList(p, category, includeInactive)
  \/ \E topic \in AdminTopicArgs, category \in CategoryArgs :
       StartLookUp(p, topic, category)
  \/ \E query \in QueryArgs, category \in CategoryArgs :
       StartSearch(p, query, category)
  \/ \E topic \in AdminTopicArgs, confirm \in BOOLEAN :
       StartDelete(p, topic, confirm)
  \/ \E topic \in AdminTopicArgs, fileName \in FileNameArgs :
       StartAttach(p, topic, fileName)
  \/ \E data \in ImportArgs, overwrite \in OverwriteArgs :
       StartImport(p, data, overwrite)

\* the server starts on the database file that update of topic "Go" with empty
\* content and update of topic "Go R" with content "Go" have left behind, and
\* handles requests of every tool one at a time
InitAdmin ==
  /\ topics = {[id |-> 1, name |-> NameGo, slug |-> topicToSlug(NameGo),
                category_id |-> NoCategory, content |-> ContentEmpty,
                is_inactive |-> FALSE],
               [id |-> 2, name |-> NameGoR, slug |-> topicToSlug(NameGoR),
                category_id |-> NoCategory, content |-> NameGo,
                is_inactive |-> FALSE]}
  /\ categories = {}
  /\ topic_relations =
       {[id |-> 1, source_id |-> 2, target_id |-> 1,
         relationship_type |-> "references", relationship_strength |-> 90],
        [id |-> 2, source_id |-> 1, target_id |-> 2,
         relationship_type |-> "referenced_by",
         relationship_strength |-> ReverseStrength(90)]}
  /\ topic_history = <<[topic_id |-> 1, content |-> ContentEmpty],
                       [topic_id |-> 2, content |-> NameGo]>>
  /\ attachments = {}
  /\ lastID = [topics |-> 2, categories |-> 0, topic_relations |-> 2, attachments |-> 0]
  /\ call = [p \in Procs |-> IdleCall]
  /\ started = 0
  /\ lastWrite =
       (<<2, 1, "references">> :> [strength |-> 90, replaced |-> FALSE]) @@
       (<<1, 2, "referenced_by">> :> [strength |-> ReverseStrength(90), replaced |-> FALSE])
  /\ NoFile
  /\ NoDetectorRun

NextAdmin ==
  \/ /\ \A q \in Procs : call[q].pc = "idle"
     /\ Start(1, AdminTopicArgs, AdminContentArgs) \/ StartAdmin(1)
  \/ Step(1)
  \/ AdminStep(1)

SpecAdmin == InitAdmin /\ [][NextAdmin]_vars

(***************************************************************************)
(* What the claims about the detector speak of, stated on the text itself. *)
(***************************************************************************)
\* the confidence reported for name, 0 when the result has no entry for it
Confidence(result, name) ==
  IF \E i \in 1..Len(result) : result[i].name = name
  THEN (CHOOSE e \in {result[i] : i \in 1..Len(result)} : e.name = name).confidence
  ELSE 0

SeqRange(s) == {s[i] : i \in 1..Len(s)}

\* content holds a markdown link [label](target) whose label is name, ignoring case
ContainsLinkTo(content, name) ==
  \E i \in 1..Len(content) :
    LET close == i + Len(name) + 1 IN
    /\ content[i] = "["
    /\ LiteralAt(name, content, i + 1)
    /\ close + 1 <= Len(content)
    /\ content[close] = "]"
    /\ content[close + 1] = "("
    /\ \E k \in (close + 3)..Len(content) :
         /\ content[k] = ")"
         /\ \A t \in (close + 2)..(k - 1) : content[t] # ")"

\* an occurrence of name at start, ignoring case, as the claims define a whole
\* word: the neighbours are string edges or characters that are not alphanumeric
WholeWordAt(name, content, start) ==
  /\ LiteralAt(name, content, start)
  /\ start = 1 \/ ~IsAlnum(content[start - 1])
  /\ start + Len(name) > Len(content) \/ ~IsAlnum(content[start + Len(name)])

WholeWordOccurrence(name, content) ==
  \E start \in 1..Len(content) : WholeWordAt(name, content, start)

\* an occurrence of name whose neighbours are edges or not word characters
StandaloneWord(name, content) ==
  \E start \in 1..Len(content) :
    /\ LiteralAt(name, content, start)
    /\ start = 1 \/ ~IsWordChar(content[start - 1])
    /\ start + Len(name) > Len(content) \/ ~IsWordChar(content[start + Len(name)])

\* the positions at which the first k characters of name can end when only
\* whitespace may be inserted between consecutive characters
RECURSIVE SpacedEnds(_, _, _)
SpacedEnds(name, content, k) ==
  IF k = 1 THEN {q \in 1..Len(content) : CharEqI(name[1], content[q])}
  ELSE LET prev == SpacedEnds(name, content, k - 1)
       IN {q \in 1..Len(content) :
             /\ CharEqI(name[k], content[q])
             /\ \E p \in prev :
                  p < q /\ \A r \in (p + 1)..(q - 1) : IsSpace(content[r])}

\* the characters of name occur in order, separated by whitespace only
SpacedOccurrence(name, content) == SpacedEnds(name, content, Len(name)) # {}

\* name occurs contiguously, ignoring case
PlainOccurrence(name, content) ==
  \E start \in 1..Len(content) : LiteralAt(name, content, start)

(***************************************************************************)
(* C1..C4: the detector.                                                   *)
(***************************************************************************)
\* C1 (as claimed): a name that is the label of a markdown link in the content is
\* reported with confidence 1.0, whatever the later passes find for it.
C1_LinkAlwaysWins ==
  detPc = "done" =>
    \A name \in SeqRange(detNames) :
      ContainsLinkTo(detContent, name) => Confidence(detResult, name) = 100

\* C2 (as claimed): a name that is no link label and occurs with non-alphanumeric
\* neighbours (or string edges) on both sides is reported with confidence 0.9.
C2_WholeWordIsNinety ==
  detPc = "done" =>
    \A name \in SeqRange(detNames) :
      (~ContainsLinkTo(detContent, name) /\ WholeWordOccurrence(name, detContent))
        => Confidence(detResult, name) = 90

Steps(p) == call[p].pc # "idle" /\ call'[p] # call[p]

\* the call in slot p executes an upsert statement that the storage applies
Upserts(p) ==
  /\ call[p].pc \in {"upsertForward", "upsertReverse", "upsertManual"}
  /\ Steps(p)
  /\ ~call'[p].upsertFailed

\* the rows of topic_relations for one (source, target, type)
EdgesOf(rows, source_id, target_id, relationship_type) ==
  {r \in rows : SameTriple(r, source_id, target_id, relationship_type)}

\* an update call has returned its "Successfully updated" result
UpdateSucceeded(c) == c.op = "update" /\ c.pc = "done" /\ c.result = "success"

\* C5: no step of an update call writes an edge whose source is its target, also
\* when the content mentions the topic's own name.
C5_NoSelfReference ==
  [][\A p \in Procs :
       (call[p].op = "update" /\ Steps(p)) =>
         \A r \in topic_relations' \ topic_relations : r.source_id # r.target_id]_vars

\* C5 witness: an update whose content mentions its own topic has returned
C5_Witness ==
  \E p \in Procs :
    /\ UpdateSucceeded(call[p])
    /\ \E i \in 1..Len(call[p].resolved) : call[p].resolved[i] = call[p].topicId
    /\ \A r \in topic_relations : r.source_id # r.target_id

\* C6 (as claimed): when an update returns, every mention (name, c) of its scan
\* that resolved to a topic M other than the written topic T has left the edge
\* (T, M, references) with strength c and (M, T, referenced_by) with 0.7 * c.
C6_ReverseDiscount ==
  \A p \in Procs :
    UpdateSucceeded(call[p]) =>
      \A i \in 1..Len(call[p].resolved) :
        LET T == call[p].topicId
            M == call[p].resolved[i]
            c == call[p].mentions[i].confidence
        IN (M # 0 /\ M # T) =>
             /\ \E r \in EdgesOf(topic_relations, T, M, "references") :
                  r.relationship_strength = c
             /\ \E r \in EdgesOf(topic_relations, M, T, "referenced_by") :
                  100 * r.relationship_strength = 70 * c

\* C7: an upsert of (source, target, type, strength) leaves exactly one edge for
\* the triple, with the strength just written, and the same upsert issued again
\* changes nothing.
C7_UpsertReplaces ==
  [][\A p \in Procs :
       Upserts(p) =>
         LET e == PendingEdge(call[p])
             same == EdgesOf(topic_relations', e.source_id, e.target_id,
                             e.relationship_type)
             again == UpsertRelation(topic_relations', lastID'.topic_relations,
                                     e.source_id, e.target_id, e.relationship_type,
                                     e.strength)
         IN /\ Cardinality(same) = 1
            /\ \A r \in same : r.relationship_strength = e.strength
            /\ again.rows = topic_relations'
            /\ again.last = lastID'.topic_relations]_vars

\* C7 witness: an upsert has replaced an earlier, different strength of its triple
C7_Witness ==
  \E r \in topic_relations :
    /\ lastWrite[EdgeKey(r)].replaced
    /\ lastWrite[EdgeKey(r)].strength = r.relationship_strength
    /\ Cardinality(EdgesOf(topic_relations, r.source_id, r.target_id,
                           r.relationship_type)) = 1

\* C8: with update and createRelation calls interleaved, no call fails on the
\* uniqueness constraint of topic_relations, no triple has two edges, and every
\* edge carries the strength of the latest upsert of its triple.
C8_AtomicUpsert ==
  /\ \A p \in Procs : call[p].error # "constraint: topic_relations"
  /\ RelationsUnique(topic_relations)
  /\ \A r \in topic_relations :
       /\ EdgeKey(r) \in DOMAIN lastWrite
       /\ lastWrite[EdgeKey(r)].strength = r.relationship_strength

\* C8 witness: between the two upserts of an update, a createRelation call has
\* replaced the strength of the forward edge the update had just written
C8_Witness ==
  \E p, q \in Procs :
    /\ call[p].op = "update"
    /\ call[p].pc = "upsertReverse"
    /\ call[q].op = "createRelation"
    /\ call[q].pc = "done"
    /\ call[q].result = "success"
    /\ call[q].relationType = "references"
    /\ call[q].sourceId = call[p].topicId
    /\ call[q].targetId = call[p].mentionedId
    /\ StrengthOrDefault(call[q].strength) # call[p].mentions[call[p].next].confidence
    /\ \E r \in topic_relations :
         /\ EdgeKey(r) = <<call[p].topicId, call[p].mentionedId, "references">>
         /\ r.relationship_strength = StrengthOrDefault(call[q].strength)
         /\ lastWrite[EdgeKey(r)].replaced

\* C9: no step of an update called with detectReferences = false changes
\* topic_relations; such a call never scans, and a call with the flag omitted has
\* scanned exactly once, and resolved every mention of that scan, when it returns.
C9_DetectFlag ==
  [][\A p \in Procs :
       /\ ( /\ call[p].op = "update"
            /\ call[p].detectReferences = <<FALSE>>
            /\ Steps(p) )
          => /\ topic_relations' = topic_relations
             /\ call'[p].scans = 0
       /\ ( /\ call'[p].op = "update"
            /\ call'[p].detectReferences = Omitted
            /\ call'[p].pc = "done"
            /\ call'[p].result = "success" )
          => /\ call'[p].scans = 1
             /\ Len(call'[p].resolved) = Len(call'[p].mentions)]_vars

\* C9 witness: an update with detectReferences = false has returned although its
\* content mentions another existing topic, and the graph holds no edge for it
C9_Witness ==
  \E p \in Procs :
    /\ UpdateSucceeded(call[p])
    /\ call[p].detectReferences = <<FALSE>>
    /\ \E t \in topics :
         /\ t.id # call[p].topicId
         /\ Confidence(findCrossReferences(call[p].content, AllTopicNames), t.name) > 0
         /\ EdgesOf(topic_relations, call[p].topicId, t.id, "references") = {}

\* C10: an update in which an upsert failed never returns the success result: it
\* ends with the error.
C10_UpsertFailureSurfaces ==
  \A p \in Procs :
    (call[p].op = "update" /\ call[p].upsertFailed) =>
      /\ call[p].pc = "done"
      /\ call[p].result = "error"

\* C10 witness: an update has ended with the error of a failed upsert
C10_Witness ==
  \E p \in Procs :
    /\ call[p].op = "update"
    /\ call[p].upsertFailed
    /\ call[p].result = "error"
    /\ call[p].error = "storage"

\* the update in slot p has written the 'references' edge of the mention at hand,
\* and the graph does not hold the 'referenced_by' counterpart of that write
HalfWrittenPair(p) ==
  LET c == call[p]
  IN /\ c.op = "update"
     /\ c.pc = "upsertReverse" \/ (c.pc = "done" /\ c.upsertFailed)
     /\ \E r \in EdgesOf(topic_relations, c.topicId, c.mentionedId, "references") :
          r.relationship_strength = c.mentions[c.next].confidence
     /\ ~\E r \in EdgesOf(topic_relations, c.mentionedId, c.topicId, "referenced_by") :
          r.relationship_strength = ReverseStrength(c.mentions[c.next].confidence)

\* the update in slot p has ended in a failed upsert: its content is stored, and
\* the graph holds no edge for the mention it was linking
StoredWithoutEdges(p) ==
  LET c == call[p]
  IN /\ c.op = "update"
     /\ c.pc = "done"
     /\ c.upsertFailed
     /\ \E t \in topics : t.id = c.topicId /\ t.content = c.content
     /\ EdgesOf(topic_relations, c.topicId, c.mentionedId, "references") = {}

\* C11 (as claimed): the graph changes by whole content writes. No state, which a
\* reader running between the statements of an update can see, holds the
\* 'references' edge of a mention without its 'referenced_by' counterpart, and no
\* update whose upsert failed leaves its content stored without its edges.
C11_TransactionalWrite ==
  \A p \in Procs : ~HalfWrittenPair(p) /\ ~StoredWithoutEdges(p)

\* C12 (as claimed): no two topics share their (slug, category) pair, and at most
\* one topic without category exists for a slug.
C12_SlugCategoryUnique ==
  \A t1, t2 \in topics :
    (t1.slug = t2.slug /\ t1.category_id = t2.category_id) => t1.id = t2.id

\* the topics named as the update in slot p names its topic, in its category
NamedLikeCall(rows, c) ==
  {t \in rows : t.name = c.topic /\ t.category_id = c.categoryId}

\* C13 (as claimed): an update for a (name, category) that no topic has creates
\* the topic; an update for a (name, category) that a topic has creates no topic,
\* replaces the content of that topic, and appends one history row holding the
\* content stored before.
C13_CreateThenReplace ==
  [][\A p \in Procs :
       (call[p].op = "update" /\ Steps(p)) =>
         LET c == call[p]
             same == NamedLikeCall(topics, c)
         IN /\ (c.pc = "findTopic" /\ same = {}) => call'[p].pc = "insertTopic"
            /\ (c.pc = "findTopic" /\ same # {}) =>
                 /\ call'[p].pc = "insertHistory"
                 /\ \E t \in same : call'[p].topicId = t.id
            /\ (c.pc = "insertTopic" /\ call'[p].result # "error") =>
                 /\ same = {}
                 /\ \E t \in NamedLikeCall(topics', c) :
                      /\ t.content = c.content
                      /\ topics' = topics \cup {t}
            /\ c.pc = "insertHistory" =>
                 \E t \in same :
                   /\ t.id = c.topicId
                   /\ topic_history' =
                        Append(topic_history, [topic_id |-> t.id, content |-> t.content])
            /\ c.pc = "updateTopic" =>
                 /\ {t.id : t \in topics'} = {t.id : t \in topics}
                 /\ \E t \in NamedLikeCall(topics', c) :
                      t.id = c.topicId /\ t.content = c.content
            /\ c.pc \notin {"insertHistory", "insertInitialHistory"} =>
                 topic_history' = topic_history]_vars

\* the (source, target, type) triples of the graph
EdgeKeys(rows) == {EdgeKey(r) : r \in rows}

\* C14: no step of an update or createRelation call removes a triple from the
\* graph, also when the new content no longer mentions a topic it referenced; a
\* step that removes a triple is the DELETE of relationships of a deleteTopic call.
C14_EdgesNeverAutoDeleted ==
  [][/\ \A p \in Procs :
          (call[p].op \in {"update", "createRelation"} /\ Steps(p)) =>
            EdgeKeys(topic_relations) \subseteq EdgeKeys(topic_relations')
     /\ ~(EdgeKeys(topic_relations) \subseteq EdgeKeys(topic_relations')) =>
          \E p \in Procs :
            /\ call[p].op = "deleteTopic"
            /\ call[p].pc = "deleteRelations"
            /\ \A k \in EdgeKeys(topic_relations) \ EdgeKeys(topic_relations') :
                 k[1] = call[p].topicId \/ k[2] = call[p].topicId]_vars

\* C14 witness: an update has scanned its new content, found no mention in it and
\* returned, and the graph still holds a 'references' edge from its topic
C14_Witness ==
  \E p \in Procs :
    /\ UpdateSucceeded(call[p])
    /\ call[p].scans = 1
    /\ call[p].mentions = <<>>
    /\ \E r \in topic_relations :
         r.source_id = call[p].topicId /\ r.relationship_type = "references"

\* the rows of the graph outside one (source, target, type)
OtherEdges(rows, source_id, target_id, relationship_type) ==
  {r \in rows : ~SameTriple(r, source_id, target_id, relationship_type)}

\* C15: a createRelation call whose topics both resolve goes on to its upsert;
\* that upsert leaves the one edge (source, target, relationType) with the
\* caller's strength, which lies in [0,1], or with 0.5 when none was given, and
\* every other edge as it was; no other step of the call changes the graph, and
\* the call never scans a content.
C15_ManualRelation ==
  [][\A p \in Procs :
       (call[p].op = "createRelation" /\ Steps(p)) =>
         LET c == call[p]
             given == IF c.strength = Omitted THEN 50 ELSE c.strength[1]
         IN /\ call'[p].scans = 0
            /\ c.pc # "upsertManual" => topic_relations' = topic_relations
            /\ (c.pc = "getTarget" /\ c.sourceId # 0 /\ call'[p].targetId # 0) =>
                 call'[p].pc = "upsertManual"
            /\ (c.pc = "upsertManual" /\ ~call'[p].upsertFailed) =>
                 /\ 0 <= given /\ given <= 100
                 /\ \E r \in topic_relations' :
                      /\ r.relationship_strength = given
                      /\ EdgesOf(topic_relations', c.sourceId, c.targetId,
                                 c.relationType) = {r}
                 /\ OtherEdges(topic_relations', c.sourceId, c.targetId,
                               c.relationType)
                      = OtherEdges(topic_relations, c.sourceId, c.targetId,
                                   c.relationType)
                 /\ call'[p].result = "success"]_vars

\* C15 witness: a createRelation call without strength has returned, its edge
\* holds 0.5, and the graph holds no edge back from its target to its source
C15_Witness ==
  \E p \in Procs :
    /\ call[p].op = "createRelation"
    /\ call[p].pc = "done"
    /\ call[p].result = "success"
    /\ call[p].strength = Omitted
    /\ call[p].sourceId # call[p].targetId
    /\ \E r \in EdgesOf(topic_relations, call[p].sourceId, call[p].targetId,
                        call[p].relationType) : r.relationship_strength = 50
    /\ \A r \in topic_relations :
         ~(r.source_id = call[p].targetId /\ r.target_id = call[p].sourceId)

\* C16 (as claimed): every edge of the graph has a strength in [0,1], here in
\* hundredths.
C16_StrengthInRange ==
  \A r \in topic_relations :
    0 <= r.relationship_strength /\ r.relationship_strength <= 100

\* the row of topic id in rows
TopicById(rows, id) == CHOOSE t \in rows : t.id = id

\* C17: a topic is created active; the inactive flag of a topic changes only in
\* the UPDATE of a toggleTopicStatus call, which stores the requested value in the
\* row the call resolved and leaves the other rows alone; a toggleTopicStatus call
\* that finds the requested value stored returns without writing. No step of
\* update, createRelation, importVault or any other tool changes a flag.
C17_ActivityToggle ==
  [][/\ \A t \in topics' :
          (t.id \notin {u.id : u \in topics}) => ~t.is_inactive
     /\ \A t \in topics, u \in topics' :
          (t.id = u.id /\ t.is_inactive # u.is_inactive) =>
            \E p \in Procs :
              /\ call[p].op = "toggleTopicStatus"
              /\ call[p].pc = "toggleSet"
              /\ call[p].topicId = t.id
              /\ u.is_inactive = call[p].setInactive
     /\ \A p \in Procs :
          (call[p].op = "toggleTopicStatus" /\ Steps(p)) =>
            /\ call[p].pc = "toggleSet" =>
                 /\ TopicById(topics', call[p].topicId).is_inactive = call[p].setInactive
                 /\ {t \in topics' : t.id # call[p].topicId}
                      = {t \in topics : t.id # call[p].topicId}
            /\ call[p].pc = "toggleGet" =>
                 /\ topics' = topics
                 /\ (call'[p].pc = "done" /\ call'[p].result = "success") =>
                      TopicById(topics, call'[p].topicId).is_inactive
                        = call[p].setInactive]_vars

\* C17 witness: an update has replaced the content of an inactive topic and
\* returned, and the topic is still inactive
C17_Witness ==
  \E p \in Procs :
    /\ UpdateSucceeded(call[p])
    /\ call[p].content # ContentEmpty
    /\ \E t \in topics :
         t.id = call[p].topicId /\ t.content = call[p].content /\ t.is_inactive

\* the topics a listTopics call is asked about: those of its category, or all
ListScope(c) ==
  IF c.category = Omitted THEN topics
  ELSE {t \in topics :
          \E cat \in categories : cat.id = t.category_id /\ cat.name = c.category[1]}

\* a listTopics call has returned its listing
ListReturned(c) == c.op = "listTopics" /\ c.pc = "done"

\* C18: the listing of a listTopics call without includeInactive holds exactly
\* the active topics of its scope, each by its name; with includeInactive = true
\* it holds every topic of its scope, an inactive one as its name followed by
\* " (inactive)", an active one by its name.
C18_ListTopics ==
  \A p \in Procs :
    ListReturned(call[p]) =>
      LET c == call[p]
          expected == IF c.includeInactive = <<TRUE>> THEN ListScope(c)
                      ELSE {t \in ListScope(c) : ~t.is_inactive}
      IN /\ {e.id : e \in c.returned} = {t.id : t \in expected}
         /\ \A e \in c.returned :
              \E t \in expected :
                /\ t.id = e.id
                /\ e.text = IF t.is_inactive THEN t.name \o InactiveMark ELSE t.name

\* C18 witness: a listing with includeInactive = true shows an inactive topic with
\* the mark and an active topic without it
C18_Witness ==
  \E p \in Procs :
    /\ ListReturned(call[p])
    /\ call[p].includeInactive = <<TRUE>>
    /\ \E e1, e2 \in call[p].returned :
         /\ TopicById(topics, e1.id).is_inactive
         /\ e1.text = TopicById(topics, e1.id).name \o InactiveMark
         /\ ~TopicById(topics, e2.id).is_inactive
         /\ e2.text = TopicById(topics, e2.id).name

\* a reading call has returned rows: lookUp, search, or listTopics without
\* includeInactive
NormalReadReturned(c) ==
  /\ c.pc = "done"
  /\ c.result = "success"
  /\ \/ c.op \in {"lookUp", "search"}
     \/ c.op = "listTopics" /\ c.includeInactive # <<TRUE>>

\* C19 (as claimed): what lookUp, search and listTopics without includeInactive
\* return holds no topic that is inactive.
C19_InactiveHidden ==
  \A p \in Procs :
    NormalReadReturned(call[p]) =>
      \A e \in call[p].returned : ~TopicById(topics, e.id).is_inactive

\* slot p holds, before or after the step, a deleteTopic call with confirm = false
UnconfirmedDelete(c) == c.op = "deleteTopic" /\ ~c.confirm

\* C20: a deleteTopic call with confirm = false returns the error result at once,
\* and no step of it changes topics, relations, history or attachments.
C20_DeleteNeedsConfirm ==
  [][\A p \in Procs :
       ( /\ UnconfirmedDelete(call[p]) \/ UnconfirmedDelete(call'[p])
         /\ call'[p] # call[p] ) =>
         /\ call[p].pc = "idle" =>
              call'[p].pc = "done" /\ call'[p].result = "isError"
         /\ call[p].pc # "idle" => call[p].pc = "done"
         /\ UNCHANGED <<topics, categories, topic_relations, topic_history,
                        attachments>>]_vars

\* C20 witness: deleteTopic with confirm = false has returned the error for a
\* topic that exists and has an attachment, edges and history
C20_Witness ==
  \E p \in Procs :
    /\ UnconfirmedDelete(call[p])
    /\ call[p].pc = "done"
    /\ call[p].result = "isError"
    /\ \E t \in topics :
         /\ t.slug = topicToSlug(call[p].topic)
         /\ \E a \in attachments : a.topic_id = t.id
         /\ \E r \in topic_relations : r.source_id = t.id \/ r.target_id = t.id
         /\ \E i \in 1..Len(topic_history) : topic_history[i].topic_id = t.id

\* every edge of the graph joins two rows of topics
NoDanglingEdge ==
  \A r \in topic_relations :
    /\ \E t \in topics : t.id = r.source_id
    /\ \E t \in topics : t.id = r.target_id

\* nothing of topic id is stored
NothingLeftOf(id) ==
  /\ \A t \in topics : t.id # id
  /\ \A r \in topic_relations : r.source_id # id /\ r.target_id # id
  /\ \A i \in 1..Len(topic_history) : topic_history[i].topic_id # id
  /\ \A a \in attachments : a.topic_id # id

\* C21: when a deleteTopic call has returned success, the row of its topic, the
\* edges from and to it, its history and its attachments are gone; no step of the
\* call changes a row that belongs to another topic; and, calls running one at a
\* time, every edge joins two existing topics in every state.
C21_DeleteRemovesAll ==
  /\ [](\A p \in Procs :
          ( /\ call[p].op = "deleteTopic"
            /\ call[p].pc = "done"
            /\ call[p].result = "success" ) => NothingLeftOf(call[p].topicId))
  /\ []NoDanglingEdge
  /\ [][\A p \in Procs :
          (call[p].op = "deleteTopic" /\ Steps(p)) =>
            LET id == call[p].topicId
            IN /\ {t \in topics' : t.id # id} = {t \in topics : t.id # id}
               /\ {r \in topic_relations' : r.source_id # id /\ r.target_id # id}
                    = {r \in topic_relations : r.source_id # id /\ r.target_id # id}
               /\ SelectSeq(topic_history', LAMBDA h : h.topic_id # id)
                    = SelectSeq(topic_history, LAMBDA h : h.topic_id # id)
               /\ {a \in attachments' : a.topic_id # id}
                    = {a \in attachments : a.topic_id # id}
               /\ categories' = categories]_vars

\* C21 witness: deleteTopic has returned success for a topic that had an
\* attachment, while another topic and its history are still stored
C21_Witness ==
  \E p \in Procs :
    /\ call[p].op = "deleteTopic"
    /\ call[p].pc = "done"
    /\ call[p].result = "success"
    /\ lastID.attachments > 0
    /\ attachments = {}
    /\ topic_relations = {}
    /\ \E t \in topics :
         \E i \in 1..Len(topic_history) : topic_history[i].topic_id = t.id

\* C24: the result holds at most one entry among names that are equal ignoring
\* case.
C24_CaseVariantsOneEntry ==
  detPc = "done" =>
    \A i, j \in 1..Len(detResult) :
      EqualsIgnoreCase(detResult[i].name, detResult[j].name) => i = j

\* C25: on empty content findCrossReferences returns an empty result, whatever
\* the name index.
C25_EmptyContentEmptyResult ==
  (detPc = "done" /\ detContent = <<>>) => detResult = <<>>

\* C30: findCrossReferences returns for every content and every name index; it
\* never raises because of the characters of a name.
C30_DetectionTotal == detPc # "threw"

(***************************************************************************)
(* Runs of update with detection and deleteTopic only.                     *)
(***************************************************************************)
\* one step of an update call in slot p
UpdateStep(p) ==
  \/ GetCategory(p)
  \/ InsertCategory(p)
  \/ FindTopic(p)
  \/ InsertHistory(p)
  \/ UpdateTopic(p)
  \/ InsertTopic(p)
  \/ InsertInitialHistory(p)
  \/ Scan(p)
  \/ Resolve(p)
  \/ UpsertForward(p)
  \/ UpsertReverse(p)

\* one step of a deleteTopic call in slot p
DeleteStep(p) ==
  \/ DeleteGet(p)
  \/ DeleteBegin(p)
  \/ DeleteAttachments(p)
  \/ DeleteRelations(p)
  \/ DeleteHistory(p)
  \/ DeleteRow(p)
  \/ DeleteCommit(p)

\* update requests that leave detectReferences at its default and confirmed
\* deleteTopic requests, one at a time, on a new database file
NextRefs ==
  \/ /\ \A q \in Procs : call[q].pc = "idle"
     /\ \/ \E topic \in TopicArgs, content \in ContentArgs, category \in CategoryArgs :
             StartUpdate(1, topic, content, category, Omitted)
        \/ \E topic \in TopicArgs : StartDelete(1, topic, TRUE)
  \/ UpdateStep(1)
  \/ DeleteStep(1)
  \/ Finish(1)

SpecRefs == InitSeq /\ [][NextRefs]_vars

\* the same requests handled concurrently, on the database file of Init.  The
\* deleteTopic calls arrive in slot 2 only, so that no transaction is begun while
\* another one is open on the connection.
NextRace ==
  \/ \E p \in Procs :
       \E topic \in ConcurrentTopicArgs, content \in ConcurrentContentArgs,
          category \in CategoryArgs :
         StartUpdate(p, topic, content, category, Omitted)
  \/ \E topic \in ConcurrentTopicArgs : StartDelete(2, topic, TRUE)
  \/ \E p \in Procs : UpdateStep(p)
  \/ DeleteStep(2)
  \/ \E p \in Procs : Finish(p)

SpecRace == Init /\ [][NextRace]_vars

\* no call is in progress
Quiescent == \A p \in Procs : call[p].pc = "idle"

\* C23 (as claimed): when no call is in progress, every edge (A, B, 'references',
\* s) has its mirror (B, A, 'referenced_by', 0.7 * s).
C23_ReferencesMirrored ==
  Quiescent =>
    \A r \in topic_relations :
      r.relationship_type = "references" =>
        \E m \in topic_relations :
          /\ SameTriple(m, r.target_id, r.source_id, "referenced_by")
          /\ m.relationship_strength = ReverseStrength(r.relationship_strength)

\* C26 (as claimed): when the interleaved calls have completed, every edge joins
\* two existing topics.
C26_NoDanglingAfterRace == Quiescent => NoDanglingEdge

\* C28 (as claimed): the edge an update writes for a mention of name N ends at a
\* topic whose name is N.
C28_MentionResolvesByName ==
  [][\A p \in Procs :
       ( /\ call[p].op = "update"
         /\ call[p].pc = "upsertForward"
         /\ Upserts(p) ) =>
         \A t \in topics :
           t.id = call[p].mentionedId =>
             t.name = call[p].mentions[call[p].next].name]_vars

\* the id of the category a category argument names, NULL when it is omitted
CategoryIdOf(category) ==
  IF category = Omitted THEN {NoCategory}
  ELSE {c.id : c \in CategoriesByName(category[1])}

\* C27 (as claimed): what a lookUp returns is the content stored in the row that
\* update writes for the same topic and category argument, the row with that slug
\* and that category, whenever that row exists.
C27_ReadYourWrites ==
  \A p \in Procs :
    ( /\ call[p].op = "lookUp"
      /\ call[p].pc = "done" ) =>
      LET written == {t \in topics :
                        /\ t.slug = topicToSlug(call[p].topic)
                        /\ t.category_id \in CategoryIdOf(call[p].category)}
      IN written # {} =>
           /\ call[p].result = "success"
           /\ \E t \in written :
                \A e \in call[p].returned : e.text = t.content

\* slot p holds an importVault call that does not ask to overwrite
ImportsWithoutOverwrite(c) == c.op = "importVault" /\ c.overwrite # <<TRUE>>

\* C22: no step of an importVault call without overwrite changes or removes a row
\* of topics or of topic_relations; a row it adds to topics has a slug no topic
\* had, a row it adds to topic_relations has a (source, target, type) no edge had;
\* and the lookup that finds the topic, or the relation, already stored counts it
\* as skipped.
C22_ImportKeepsExisting ==
  [][\A p \in Procs :
       (ImportsWithoutOverwrite(call[p]) /\ Steps(p)) =>
         LET c == call[p]
         IN /\ topics \subseteq topics'
            /\ topic_relations \subseteq topic_relations'
            /\ \A t \in topics' \ topics : TopicsBySlug(t.slug) = {}
            /\ \A r \in topic_relations' \ topic_relations :
                 EdgesOf(topic_relations, r.source_id, r.target_id,
                         r.relationship_type) = {}
            /\ ( /\ c.pc = "importFindTopic"
                 /\ TopicsBySlug(c.data.topics[c.next].slug) # {} )
                 => call'[p].skipped = c.skipped + 1
            /\ ( /\ c.pc = "importFindRelation"
                 /\ EdgesOf(topic_relations, c.sourceId, c.targetId,
                            c.data.relations[c.next].relationType) # {} )
                 => call'[p].relationsSkipped = c.relationsSkipped + 1]_vars

\* C22 witness: an importVault call without overwrite has returned after skipping
\* a stored topic and a stored relation, whose strength is not that of the data
C22_Witness ==
  \E p \in Procs :
    LET c == call[p]
    IN /\ ImportsWithoutOverwrite(c)
       /\ c.pc = "done"
       /\ c.result = "success"
       /\ c.skipped = 1
       /\ c.relationsSkipped = 1
       /\ \E r \in topic_relations :
            /\ r.source_id \in IdsByName(c.data.relations[1].sourceTopic)
            /\ r.target_id \in IdsByName(c.data.relations[1].targetTopic)
            /\ r.relationship_type = c.data.relations[1].relationType
            /\ r.relationship_strength # c.data.relations[1].strength

(***************************************************************************)
(* exportVault with format json, no category and an exportPath, and the    *)
(* import of the file it wrote on a new database file.                     *)
(***************************************************************************)
\* the rows of a db.all without ORDER BY: every row once, in an order that is
\* not specified
Orderings(rows) ==
  {order \in [1..Cardinality(rows) -> rows] :
     \A i, j \in 1..Cardinality(rows) : i # j => order[i] # order[j]}

\* c.name of the LEFT JOIN categories c ON t.category_id = c.id, NULL as Omitted
CategoryNameOf(category_id) ==
  IF \E c \in categories : c.id = category_id
  THEN <<(CHOOSE c \in categories : c.id = category_id).name>>
  ELSE Omitted

\* topics.map(t => ({name, slug, category, content}))
ExportedTopic(t) ==
  [name |-> t.name, slug |-> t.slug, category |-> CategoryNameOf(t.category_id),
   content |-> t.content]

\* the rows of topic_relations tr JOIN topics t1 ON tr.source_id = t1.id JOIN
\* topics t2 ON tr.target_id = t2.id WHERE t1.name IN (...) OR t2.name IN (...)
ExportedRelationRows(topicNames) ==
  {r \in topic_relations :
     /\ \E t1 \in topics : t1.id = r.source_id
     /\ \E t2 \in topics : t2.id = r.target_id
     /\ \/ TopicById(topics, r.source_id).name \in topicNames
        \/ TopicById(topics, r.target_id).name \in topicNames}

\* relations.map(r => ({sourceTopic, targetTopic, relationType, strength}))
ExportedRelation(r) ==
  [sourceTopic |-> TopicById(topics, r.source_id).name,
   targetTopic |-> TopicById(topics, r.target_id).name,
   relationType |-> r.relationship_type, strength |-> r.relationship_strength]

\* what a topic is to a reader of the vault: name, slug, category name, content
TopicView(t) == ExportedTopic(t)

\* the topics of the vault as (name, slug, category, content)
VaultTopics == {TopicView(t) : t \in topics}

\* the relations of the vault as (source topic, target topic, type, strength)
VaultRelations ==
  {[source |-> TopicView(TopicById(topics, r.source_id)),
    target |-> TopicView(TopicById(topics, r.target_id)),
    type |-> r.relationship_type, strength |-> r.relationship_strength] :
     r \in {e \in topic_relations :
              /\ \E t \in topics : t.id = e.source_id
              /\ \E t \in topics : t.id = e.target_id}}

\* the server receives an exportVault request
StartExport(p) ==
  /\ call[p].pc = "idle"
  /\ started < MaxCalls
  /\ started' = started + 1
  /\ SetCall(p, [IdleCall EXCEPT !.op = "exportVault", !.pc = "exportTopics"])
  /\ UNCHANGED <<dbVars, lastWrite, detVars, fileVars>>

\* exportVault: SELECT t.name, t.slug, t.content, c.name FROM topics t LEFT JOIN
\* categories c
ExportTopics(p) ==
  LET c == call[p]
  IN /\ c.pc = "exportTopics"
     /\ \E order \in Orderings(topics) :
          SetCall(p, [c EXCEPT
                        !.data = [format |-> "knowledgevault-export-v1",
                                  topics |-> [i \in 1..Len(order) |->
                                                ExportedTopic(order[i])],
                                  relations |-> <<>>],
                        !.pc = "exportRelations"])
     /\ UNCHANGED <<dbVars, started, lastWrite, detVars, fileVars>>

\* exportVault: the SELECT of the relations, exportData, and writeFile(exportPath)
ExportRelations(p) ==
  LET c == call[p]
      topicNames == {c.data.topics[i].name : i \in 1..Len(c.data.topics)}
  IN /\ c.pc = "exportRelations"
     /\ \E order \in Orderings(ExportedRelationRows(topicNames)) :
          exportFile' = [c.data EXCEPT
                           !.relations = [i \in 1..Len(order) |->
                                            ExportedRelation(order[i])]]
     /\ exportedVault' = [topics |-> VaultTopics, relations |-> VaultRelations]
     /\ SetCall(p, Return(c))
     /\ UNCHANGED <<dbVars, started, lastWrite, detVars>>

\* the server is started again on a new database file (DB_PATH of a
\* second vault); the file at exportPath stays
NewVault ==
  /\ \A q \in Procs : call[q].pc = "idle"
  /\ exportFile # NoExport
  /\ topics # {}
  /\ topics' = {}
  /\ categories' = {}
  /\ topic_relations' = {}
  /\ topic_history' = <<>>
  /\ attachments' = {}
  /\ lastID' = [topics |-> 0, categories |-> 0, topic_relations |-> 0, attachments |-> 0]
  /\ lastWrite' = <<>>
  /\ UNCHANGED <<call, started, detVars, fileVars>>

\* the server receives, on an empty vault, an importVault request whose importPath
\* is the file exportVault wrote
StartImportFile(p, overwrite) ==
  /\ exportFile # NoExport
  /\ topics = {}
  /\ categories = {}
  /\ topic_relations = {}
  /\ StartImport(p, exportFile, overwrite)

\* one step of an exportVault call in slot p
ExportStep(p) ==
  \/ ExportTopics(p)
  \/ ExportRelations(p)

\* one step of an importVault call in slot p
ImportStep(p) ==
  \/ ImportFindTopic(p)
  \/ ImportGetCategory(p)
  \/ ImportInsertCategory(p)
  \/ ImportUpdateTopic(p)
  \/ ImportInsertTopic(p)
  \/ ImportGetSource(p)
  \/ ImportGetTarget(p)
  \/ ImportFindRelation(p)
  \/ ImportUpdateRelation(p)
  \/ ImportInsertRelation(p)

\* the database file that four update calls have left behind: topic "Go" with
\* empty content, without a category and then in category "c1", topic "Go R" with
\* content "Go", its mention resolved to topic 1, and topic "Go R" with content
\* "G o", its mention resolved to topic 2
InitRoundTrip ==
  /\ topics = {[id |-> 1, name |-> NameGo, slug |-> topicToSlug(NameGo),
                category_id |-> NoCategory, content |-> ContentEmpty,
                is_inactive |-> FALSE],
               [id |-> 2, name |-> NameGo, slug |-> topicToSlug(NameGo),
                category_id |-> 1, content |-> ContentEmpty,
                is_inactive |-> FALSE],
               [id |-> 3, name |-> NameGoR, slug |-> topicToSlug(NameGoR),
                category_id |-> NoCategory, content |-> ContentSpaced,
                is_inactive |-> FALSE]}
  /\ categories = {[id |-> 1, name |-> "c1"]}
  /\ topic_relations =
       {[id |-> 1, source_id |-> 3, target_id |-> 1,
         relationship_type |-> "references", relationship_strength |-> 90],
        [id |-> 2, source_id |-> 1, target_id |-> 3,
         relationship_type |-> "referenced_by",
         relationship_strength |-> ReverseStrength(90)],
        [id |-> 3, source_id |-> 3, target_id |-> 2,
         relationship_type |-> "references", relationship_strength |-> 70],
        [id |-> 4, source_id |-> 2, target_id |-> 3,
         relationship_type |-> "referenced_by",
         relationship_strength |-> ReverseStrength(70)]}
  /\ topic_history = <<[topic_id |-> 1, content |-> ContentEmpty],
                       [topic_id |-> 2, content |-> ContentEmpty],
                       [topic_id |-> 3, content |-> NameGo],
                       [topic_id |-> 3, content |-> NameGo]>>
  /\ attachments = {}
  /\ lastID = [topics |-> 3, categories |-> 1, topic_relations |-> 4, attachments |-> 0]
  /\ call = [p \in Procs |-> IdleCall]
  /\ started = 0
  /\ lastWrite = <<>>
  /\ NoFile
  /\ NoDetectorRun

\* exportVault and importVault requests one at a time, the import on a new
\* database file
NextRoundTrip ==
  \/ /\ \A q \in Procs : call[q].pc = "idle"
     /\ \/ StartExport(1)
        \/ \E overwrite \in OverwriteArgs : StartImportFile(1, overwrite)
  \/ NewVault
  \/ ExportStep(1)
  \/ ImportStep(1)
  \/ Finish(1)

SpecRoundTrip == InitRoundTrip /\ [][NextRoundTrip]_vars

\* C29 (as claimed): when the import of an exported file into an empty vault has
\* returned, the vault holds the topics (name, slug, category, content) and the
\* relations (source topic, target topic, type, strength) of the exported vault.
C29_RoundTrip ==
  \A p \in Procs :
    (call[p].op = "importVault" /\ call[p].pc = "done") =>
      /\ VaultTopics = exportedVault.topics
      /\ VaultRelations = exportedVault.relations

====
